---- MODULE Spec2Model ----
(***************************************************************************)
(* A model of cove/lib/common.py: the SchemaOCDS object (version choice,   *)
(* extensions), the four report analyzers that read it, the codelist       *)
(* loader behind functools.lru_cache, the grouping of validation errors,   *)
(* the unique_ids rule and the additional-fields report.                   *)
(*                                                                         *)
(* Conventions.  Python's None is the string "None".  A str is a TLA+      *)
(* string.  A dict is a function, the empty dict/tuple is << >>.  A URL is *)
(* the pair <<directory, last segment>>.  A slash-joined path string is    *)
(* the sequence of its segments; property names contain no '/'.            *)
(***************************************************************************)
EXTENDS Integers, Sequences, FiniteSets, TLC

VARIABLES
    \* ---- SchemaOCDS and its environment
    pc,              \* "new" before __init__ has run, "built" after
    select_version,  \* argument of __init__
    release_data,    \* argument of __init__; also the document analysed
    self,            \* the fields of the SchemaOCDS object
    net,             \* what the extension hosts answer, per descriptor URL
    fs,              \* upload_dir/extended_release_schema.json, or NoFile
    frag,            \* the report fragment of each analyzer, once it ran
    raised,          \* the exception the last call let escape, or "None"
    ncalls,          \* calls made on the object so far
    others,          \* has anything but the four analyzers been called
    seen,            \* the trees the deref=True calls returned so far, and
                     \* whether apply_extensions has been called
    \* ---- the codelist loader
    cache,           \* functools.lru_cache of _load_codelists: its entries
    call,            \* per caller: where it is in _load_codelists, its locals
    http_log,        \* the GETs issued for codelist files: who, key, file
    \* ---- get_schema_validation_errors, the loop over the validator's errors
    errors,             \* our_validator.iter_errors(json_data), as a list
    cell_source_map,    \* argument
    heading_source_map, \* argument
    consumed,           \* errors consumed so far (the loop's n)
    validation_errors,  \* the defaultdict(list): key -> occurrence records
    returned,           \* has the function returned dict(validation_errors)
    \* ---- unique_ids, the loop over the items of an array
    ui,                 \* the schema's uniqueItems value
    instance,           \* the array validated
    visited,            \* items the loop has passed
    all_ids,
    non_unique_ids,
    yielded,            \* the errors yielded so far
    finished,           \* has the generator ended
    \* ---- get_counts_additional_fields
    json_document,      \* argument json_data
    schema_tree,        \* the dereferenced package schema behind schema_obj
    fields_regex,       \* argument
    additional,         \* the list returned, once called
    \* ---- get_json_data_deprecated_fields
    dep_json_data,      \* argument json_data
    dep_schema,         \* the dereferenced package schema behind schema_obj
    deprecated_fields_output, \* the OrderedDict returned, once called
    \* ---- get_additional_codelist_values
    cl_json_data,       \* argument json_data
    codelist_schema,    \* the dereferenced package schema behind schema_obj
    loaded_codelists,   \* what _load_codelists returned: file -> code -> title
    additional_codelist_values, \* the dict returned, once called
    \* ---- CustomRefResolver
    resolver,           \* the resolver's schema_file and schema_url
    served,             \* what the files or the host hold: name -> document
    store,              \* self.store: resolved uri -> document
    io_log,             \* the documents loaded so far: for which ref, from where
    resolved            \* the last resolve_remote call: its ref, uri and outcome

schemaVars == <<pc, select_version, release_data, self, net, fs, frag, raised,
                ncalls, others, seen>>

codelistVars == <<cache, call, http_log>>

validationVars == <<errors, cell_source_map, heading_source_map, consumed,
                    validation_errors, returned>>

uniqueVars == <<ui, instance, visited, all_ids, non_unique_ids, yielded, finished>>

fieldVars == <<json_document, schema_tree, fields_regex, additional>>

deprecatedVars == <<dep_json_data, dep_schema, deprecated_fields_output>>

valuesVars == <<cl_json_data, codelist_schema, loaded_codelists, additional_codelist_values>>

resolverVars == <<resolver, served, store, io_log, resolved>>

vars == <<schemaVars, codelistVars, validationVars, uniqueVars, fieldVars,
          deprecatedVars,
          valuesVars,
          resolverVars>>

None == "None"

(***************************************************************************)
(* Configuration (settings.COVE_CONFIG_BY_NAMESPACE): the version choices, *)
(* each with its schema host, and the default version.                     *)
(***************************************************************************)
version_choices == [v \in {"1.0", "1.1"} |-> <<v, <<"standard/" \o v, "">>>>]

default_version == "1.0"

default_schema_host == version_choices[default_version][2]

\* Python truthiness of the values a version argument or field can take.
Truthy(x) == x # None /\ x # ""

(***************************************************************************)
(* Inputs.                                                                 *)
(***************************************************************************)
MaxExtensions == 2

ExtensionUrls == {<<"ext1", "extension.json">>, <<"ext2", "extension.json">>}

\* The lists release_data['extensions'] can hold (no repeats).
ExtensionLists ==
    {s \in UNION {[1..n -> ExtensionUrls] : n \in 0..MaxExtensions} :
        \A i, j \in DOMAIN s : i # j => s[i] # s[j]}

VersionValues == {None, "", "1.0", "1.1", "9.9"}

\* The field an extension's patch adds to the release schema.
FieldOf(url) == url[1] \o "Field"

ExtensionFields == {FieldOf(u) : u \in ExtensionUrls}

\* release_data: empty (None or {}), or a package with an optional version,
\* an extensions list and the extension fields its releases carry.
ReleaseData(vs, exts, fieldsets) ==
    {[empty |-> TRUE, version |-> None, extensions |-> << >>, fields |-> {}]}
    \cup [empty : {FALSE}, version : vs, extensions : exts, fields : fieldsets]

(***************************************************************************)
(* SchemaOCDS.__init__                                                     *)
(***************************************************************************)
\* get_schema_validation_errors not in its loop.
ValidationIdle ==
    /\ errors = << >>
    /\ cell_source_map = << >>
    /\ heading_source_map = << >>
    /\ consumed = 0
    /\ validation_errors = << >>
    /\ returned = FALSE

\* unique_ids not running.
UniqueIdle ==
    /\ ui = FALSE
    /\ instance = << >>
    /\ visited = 0
    /\ all_ids = {}
    /\ non_unique_ids = {}
    /\ yielded = << >>
    /\ finished = FALSE

\* get_counts_additional_fields not called.
JsonScalar == [t |-> "s"]

NotCalled == [called |-> FALSE]

FieldsIdle ==
    /\ json_document = JsonScalar
    /\ schema_tree = [properties |-> << >>]
    /\ fields_regex = FALSE
    /\ additional = NotCalled

\* get_json_data_deprecated_fields not called.
DeprecatedIdle ==
    /\ dep_json_data = JsonScalar
    /\ dep_schema = [properties |-> << >>]
    /\ deprecated_fields_output = NotCalled

\* get_additional_codelist_values not called.
ValuesIdle ==
    /\ cl_json_data = JsonScalar
    /\ codelist_schema = [properties |-> << >>]
    /\ loaded_codelists = << >>
    /\ additional_codelist_values = NotCalled

\* No CustomRefResolver built.
NoResolved == [called |-> FALSE, refs |-> << >>]

ResolverIdle ==
    /\ resolver = [built |-> FALSE]
    /\ served = << >>
    /\ store = << >>
    /\ io_log = << >>
    /\ resolved = NoResolved

NoObject == [built |-> FALSE]

NoFile == [exists |-> FALSE]

NothingSeen == [schema |-> {}, pkg |-> {}, applied |-> FALSE]

\* The object's surroundings before anything was called on it.
SchemaIdle ==
    /\ net = << >>
    /\ fs = NoFile
    /\ frag = << >>
    /\ raised = None
    /\ ncalls = 0
    /\ others = FALSE
    /\ seen = NothingSeen

\* the dict comprehension {ext: tuple() for ext in data_extensions}
NoTuples(exts) == [u \in {exts[i] : i \in DOMAIN exts} |-> << >>]

\* lines 144-152: the fields as __init__ first sets them.  extension_order
\* is the key order of the extensions dict (a dict keeps insertion order).
Defaults ==
    [built |-> TRUE,
     version |-> default_version,
     invalid_version_argument |-> FALSE,
     invalid_version_data |-> FALSE,
     schema_host |-> default_schema_host,
     extensions |-> << >>,
     extension_order |-> << >>,
     invalid_extension |-> << >>,
     extended |-> FALSE,
     extended_schema_file |-> None]

InvalidArgument_unflagged(o) == o

\* lines 157-159: the KeyError branch of the select_version lookup.
InvalidArgument(o) == [o EXCEPT !.invalid_version_argument = TRUE]

DataVersionRead_always(sel) == TRUE

DataVersionRead_never(sel) == FALSE

\* line 170: the data's version is read only when no valid version was
\* selected (an invalid selection has been reset to None by then).
DataVersionRead(sel) == ~Truthy(sel)

\* lines 166-180: the release_data half of __init__; o is the object so far,
\* sel the select_version as the first half left it.
SchemaOCDS_data(o, sel, data) ==
    IF data.empty THEN o
    ELSE LET o1 == IF data.extensions # << >>
                   THEN [o EXCEPT !.extensions = NoTuples(data.extensions),
                                  !.extension_order = data.extensions]
                   ELSE o
         IN  IF DataVersionRead(sel) /\ Truthy(data.version)
             THEN IF data.version \in DOMAIN version_choices
                  THEN [o1 EXCEPT !.version = data.version,
                                  !.schema_host = version_choices[data.version][2]]
                  ELSE [o1 EXCEPT !.invalid_version_data = TRUE]
             ELSE o1

\* lines 136-184
SchemaOCDS(sel, data) ==
    LET valid == sel \in DOMAIN version_choices
        o1 == IF ~Truthy(sel) THEN Defaults
              ELSE IF valid
                   THEN [Defaults EXCEPT !.version = sel,
                                         !.schema_host = version_choices[sel][2]]
                   ELSE InvalidArgument(Defaults)
        sel1 == IF Truthy(sel) /\ ~valid THEN None ELSE sel
    IN  SchemaOCDS_data(o1, sel1, data)

(***************************************************************************)
(* _load_codelists behind functools.lru_cache (lines 606-624).             *)
(***************************************************************************)
MaxLoads == 2

Callers == {"t1", "t2"}

CodelistFiles == {"base.csv", "ext1.csv", "ext2.csv"}

codelist_url == <<"codelists", "">>

\* The CSV records the codelist host serves for a file.
CsvOf(file) ==
    IF file = "base.csv"
    THEN <<[Code |-> "open", Title |-> "Open"], [Code |-> "selective", Title |-> "Selective"]>>
    ELSE <<[Code |-> "open", Title |-> "Open"]>>

\* lines 613-618: the code -> title mapping read from the records.
ParseCsv(records) ==
    [c \in {records[i].Code : i \in DOMAIN records} |->
        LET last == CHOOSE i \in DOMAIN records :
                        /\ records[i].Code = c
                        /\ \A j \in DOMAIN records : records[j].Code = c => j <= i
        IN  records[last].Title]

OnFetchFailure_keep(codelists) == codelists

\* lines 620-622: a failed GET drops what the batch had loaded.
OnFetchFailure(codelists) == << >>

\* lines 611-618: a GET that succeeded adds the file's entry.
OnFetched(codelists, file) == (file :> ParseCsv(CsvOf(file))) @@ codelists

\* _load_codelists run to its end, the host answering ok[file] to each GET.
RECURSIVE load_codelists_from(_, _, _)
load_codelists_from(codelists, todo, ok) ==
    IF todo = {} THEN codelists
    ELSE LET file == CHOOSE f \in todo : TRUE
         IN  IF ok[file]
             THEN load_codelists_from(OnFetched(codelists, file), todo \ {file}, ok)
             ELSE OnFetchFailure(codelists)

\* functools.lru_cache() keeps at most this many keys (the default).
maxsize == 128

\* The wrapper's store: the entries, the least recently used first.
Cached(c, key) == \E i \in DOMAIN c : c[i].key = key

IndexOfKey(c, key) == CHOOSE i \in DOMAIN c : c[i].key = key

ResultOf(c, key) == c[IndexOfKey(c, key)].result

\* A hit moves the entry to the most recently used end.
Touch(c, key) ==
    LET i == IndexOfKey(c, key)
    IN  Append(SubSeq(c, 1, i - 1) \o SubSeq(c, i + 1, Len(c)), c[i])

StoreResult_unless_empty(c, key, result) ==
    IF Cached(c, key) \/ result = << >> THEN c
    ELSE IF Len(c) >= maxsize
         THEN Append(Tail(c), [key |-> key, result |-> result])
         ELSE Append(c, [key |-> key, result |-> result])

\* The wrapper stores a result only if the key is still absent when the
\* call returns; a full store drops its least recently used entry.
StoreResult(c, key, result) ==
    IF Cached(c, key) THEN c
    ELSE IF Len(c) >= maxsize
         THEN Append(Tail(c), [key |-> key, result |-> result])
         ELSE Append(c, [key |-> key, result |-> result])

\* The lru_cache wrapper around a call that runs alone: a hit returns the
\* stored result, a miss computes and stores it.
CachedLoad(c, key, ok) ==
    IF Cached(c, key) THEN [cache |-> Touch(c, key), result |-> ResultOf(c, key)]
    ELSE LET r == load_codelists_from(<< >>, key[2], ok)
         IN  [cache |-> StoreResult(c, key, r), result |-> r]

IdleCall == [pc |-> "idle", key |-> None, todo |-> {}, codelists |-> << >>,
             resp |-> << >>, result |-> None, loads |-> 0]

CodelistIdle ==
    /\ cache = << >>
    /\ call = [t \in Callers |-> IdleCall]
    /\ http_log = {}

CodelistKeys == {<<codelist_url, files>> : files \in SUBSET {"base.csv", "ext1.csv"}}

\* A caller enters the wrapper: the cache lookup.
Lookup(t, key) ==
    /\ call[t].pc = "idle"
    /\ IF Cached(cache, key)
       THEN /\ call' = [call EXCEPT ![t].key = key, ![t].result = ResultOf(cache, key),
                                    ![t].resp = << >>, ![t].codelists = << >>,
                                    ![t].loads = @ + 1]
            /\ cache' = Touch(cache, key)
       ELSE /\ call' = [call EXCEPT ![t].pc = "fetch", ![t].key = key,
                                    ![t].todo = key[2], ![t].codelists = << >>,
                                    ![t].resp = << >>, ![t].result = None]
            /\ UNCHANGED cache
    /\ UNCHANGED http_log

\* One turn of the loop: the GET of the next file and what follows it.
Fetch(t, file, ok) ==
    /\ call[t].pc = "fetch"
    /\ file \in call[t].todo
    /\ http_log' = http_log \cup {[caller |-> t, key |-> call[t].key, file |-> file]}
    /\ IF ok
       THEN call' = [call EXCEPT ![t].codelists = OnFetched(@, file),
                                 ![t].todo = @ \ {file},
                                 ![t].resp = (file :> TRUE) @@ @]
       ELSE call' = [call EXCEPT ![t].codelists = OnFetchFailure(@),
                                 ![t].todo = {},
                                 ![t].resp = (file :> FALSE) @@ @]
    /\ UNCHANGED cache

\* The loop is over: the function returns and the wrapper stores the result.
Return(t) ==
    /\ call[t].pc = "fetch"
    /\ call[t].todo = {}
    /\ cache' = StoreResult(cache, call[t].key, call[t].codelists)
    /\ call' = [call EXCEPT ![t].pc = "idle", ![t].result = call[t].codelists,
                            ![t].loads = @ + 1]
    /\ UNCHANGED http_log

InitCodelist ==
    /\ pc = "new"
    /\ select_version = None
    /\ release_data = [empty |-> TRUE, version |-> None, extensions |-> << >>, fields |-> {}]
    /\ self = NoObject
    /\ SchemaIdle
    /\ CodelistIdle
    /\ ValidationIdle
    /\ UniqueIdle
    /\ FieldsIdle
    /\ ResolverIdle
    /\ ValuesIdle
    /\ DeprecatedIdle

NextCodelist ==
    \/ \E t \in Callers, key \in CodelistKeys :
            call[t].loads < MaxLoads /\ Lookup(t, key) /\ UNCHANGED <<schemaVars, validationVars, uniqueVars, fieldVars, deprecatedVars, valuesVars, resolverVars>>
    \/ \E t \in Callers, file \in CodelistFiles, ok \in BOOLEAN :
            Fetch(t, file, ok) /\ UNCHANGED <<schemaVars, validationVars, uniqueVars, fieldVars, deprecatedVars, valuesVars, resolverVars>>
    \/ \E t \in Callers :
            Return(t) /\ UNCHANGED <<schemaVars, validationVars, uniqueVars, fieldVars, deprecatedVars, valuesVars, resolverVars>>

SpecCodelist == InitCodelist /\ [][NextCodelist]_vars

\* The callers that have issued a GET under a key.
Fetchers(key) == {e.caller : e \in {x \in http_log : x.key = key}}

\* C6: when the loop of _load_codelists is over, the mapping is empty if any
\* GET of the batch failed (whatever was fetched before it), and has exactly
\* one entry per requested file, the parsed file, if every GET succeeded.
C6_AllOrNothing ==
    \A t \in Callers :
        (call[t].pc = "fetch" /\ call[t].todo = {}) =>
            IF \E f \in DOMAIN call[t].resp : ~call[t].resp[f]
            THEN call[t].codelists = << >>
            ELSE /\ DOMAIN call[t].codelists = call[t].key[2]
                 /\ DOMAIN call[t].resp = call[t].key[2]
                 /\ \A f \in call[t].key[2] :
                        call[t].codelists[f] = ParseCsv(CsvOf(f))

C6_Witness ==
    \E t \in Callers :
        /\ call[t].pc = "fetch" /\ call[t].todo = {}
        /\ \E f, g \in DOMAIN call[t].resp : call[t].resp[f] /\ ~call[t].resp[g]
        /\ call[t].codelists = << >>

\* C7 as stated: the GETs for one key are issued by at most one caller.
C7_AsStated == \A key \in CodelistKeys : Cardinality(Fetchers(key)) <= 1

(***************************************************************************)
(* Schemas.  A release schema is known by its version and by the patches   *)
(* merged into it, in order (a later patch overwrites an earlier one); a   *)
(* package schema by its version and by what stands under                  *)
(* properties/releases/items.  deref tells whether $refs were expanded.    *)
(***************************************************************************)
\* _release_schema_obj: json.loads of the text fetched from release_schema_url
release_schema_obj(o) == [version |-> o.version, merged |-> << >>, deref |-> FALSE]

Ref == [ref |-> "release-schema.json"]

\* _release_pkg_schema_obj: releases/items is a $ref to release-schema.json
release_pkg_schema_obj(o) == [version |-> o.version, items |-> Ref, deref |-> FALSE]

\* json_merge_patch.merge(schema_obj, extension_data), in place
merge(schema_obj, descriptor_url) ==
    [schema_obj EXCEPT !.merged = Append(@, descriptor_url)]

\* deref_schema: jsonref.loads of a schema text
deref_schema(schema) == [schema EXCEPT !.deref = TRUE]

\* The extension fields a release schema declares.
DeclaredIn(schema) == {FieldOf(schema.merged[i]) : i \in DOMAIN schema.merged}

(***************************************************************************)
(* SchemaOCDS.apply_extensions (lines 186-213).  net[d] says how the hosts *)
(* of extension d answer.                                                  *)
(***************************************************************************)
NetOutcomes == {"patch fetch raises", "patch not ok", "patch not json",
                "descriptor fails", "ok"}

DescriptorError == "exception from requests.get(extensions_descriptor_url).json()"

\* lines 195-207: the failure branches record a reason and continue
Invalid(o, d, reason) ==
    [o EXCEPT !.invalid_extension = (d :> reason) @@ @]

\* lines 209-213: the patch is merged, the descriptor read
Applied(o, d, url) ==
    [o EXCEPT !.extensions = (d :> <<url, d[1] \o " name", d[1] \o " description">>) @@ @,
              !.extended = TRUE]

\* The loop from the i-th key of self.extensions on.  The result is the
\* object, the schema as merged so far and the exception that escaped.
RECURSIVE apply_extensions_from(_, _, _, _)
apply_extensions_from(o, schema_obj, n, i) ==
    IF i > Len(o.extension_order)
    THEN [self |-> o, value |-> schema_obj, raised |-> None]
    ELSE LET d == o.extension_order[i]
             url == <<d[1], "release-schema.json">>
         IN  CASE n[d] = "patch fetch raises" ->
                    apply_extensions_from(Invalid(o, d, "fetching failed"), schema_obj, n, i + 1)
               [] n[d] = "patch not json" ->
                    apply_extensions_from(Invalid(o, d, "invalid JSON"), schema_obj, n, i + 1)
               [] n[d] = "patch not ok" ->
                    apply_extensions_from(Invalid(o, d, "404: not found"), schema_obj, n, i + 1)
               [] n[d] = "descriptor fails" ->
                    [self |-> o, value |-> merge(schema_obj, d), raised |-> DescriptorError]
               [] OTHER ->
                    apply_extensions_from(Applied(o, d, url), merge(schema_obj, d), n, i + 1)

apply_extensions(o, schema_obj, n) ==
    IF o.extensions = << >>
    THEN [self |-> o, value |-> schema_obj, raised |-> None]
    ELSE apply_extensions_from(o, schema_obj, n, 1)

(***************************************************************************)
(* SchemaOCDS.get_release_schema_obj (lines 215-229),                      *)
(* get_release_pkg_schema_obj (231-243) and                                *)
(* create_extended_release_schema_file (245-253).  Each returns the        *)
(* object as the call leaves it, the value returned and the exception.     *)
(***************************************************************************)
\* line 225: self.extended as apply_extensions has left it
ExtendedAtDeref(o, after) == after.extended

get_release_schema_obj(o, deref, n, file) ==
    LET r == IF o.extended_schema_file # None
             THEN [self |-> o, value |-> file, raised |-> None]
             ELSE IF o.extensions # << >>
                  THEN apply_extensions(o, release_schema_obj(o), n)
                  ELSE [self |-> o, value |-> release_schema_obj(o), raised |-> None]
    IN  IF r.raised # None \/ ~deref THEN r
        ELSE IF ExtendedAtDeref(o, r.self)
             THEN [r EXCEPT !.value = deref_schema(r.value)]
             ELSE [r EXCEPT !.value = deref_schema(release_schema_obj(o))]

get_release_pkg_schema_obj(o, deref, n, file) ==
    IF ~deref
    THEN [self |-> o, value |-> release_pkg_schema_obj(o), raised |-> None]
    ELSE LET r == get_release_schema_obj(o, TRUE, n, file)
         IN  IF r.raised # None THEN r
             ELSE IF r.self.extended
                  THEN [r EXCEPT !.value =
                           [deref_schema(release_pkg_schema_obj(o)) EXCEPT !.items = r.value]]
                  ELSE [r EXCEPT !.value =
                           [deref_schema(release_pkg_schema_obj(o)) EXCEPT
                               !.items = deref_schema(release_schema_obj(o))]]

ExtendedPath == "upload_dir/extended_release_schema.json"

Truncated == [truncated |-> TRUE]

\* The result also carries the file as the call leaves it: open(.., 'w')
\* creates it before get_release_schema_obj runs.
create_extended_release_schema_file(o, n, file) ==
    IF ~o.extended \/ file # NoFile
    THEN [self |-> o, file |-> file, raised |-> None]
    ELSE LET r == get_release_schema_obj(o, FALSE, n, Truncated)
         IN  IF r.raised # None
             THEN [self |-> r.self, file |-> Truncated, raised |-> r.raised]
             ELSE [self |-> [r.self EXCEPT !.extended_schema_file = ExtendedPath],
                   file |-> r.value, raised |-> None]

(***************************************************************************)
(* The four analyzers, as far as they read and change the schema object.   *)
(* The releases carry the extension fields release_data.fields; the value  *)
(* of each breaks the type its extension declares, is no code of the       *)
(* codelist its extension names, and its extension marks it deprecated.    *)
(***************************************************************************)
Analyzers == {"get_schema_validation_errors", "get_counts_additional_fields",
              "get_json_data_deprecated_fields", "get_additional_codelist_values"}

NotRun == [run |-> FALSE]

Report(value, exc) == [run |-> TRUE, value |-> value, raised |-> exc]

\* CustomRefResolver.resolve_remote (lines 61-76) for the $ref under
\* releases/items: with schema_url the schema of the host, with schema_file
\* that file, with neither the relative path 'release-schema.json'.
resolve_remote(o, schema_file, use_file, file) ==
    IF ~use_file
    THEN [value |-> release_schema_obj(o), raised |-> None]
    ELSE IF schema_file # None /\ file # NoFile /\ file # Truncated
         THEN [value |-> file, raised |-> None]
         ELSE [value |-> None, raised |-> "RefResolutionError(FileNotFoundError)"]

\* lines 379-395 and the validator's pass over the releases
get_schema_validation_errors(json_data, o, file) ==
    LET doc == resolve_remote(o, o.extended_schema_file, o.extended, file)
    IN  IF doc.raised # None
        THEN [self |-> o, report |-> Report({}, doc.raised)]
        ELSE [self |-> o,
              report |-> Report(json_data.fields \cap DeclaredIn(doc.value), None)]

\* lines 357-376: get_release_pkg_schema_fields dereferences the package
get_counts_additional_fields(json_data, o, n, file) ==
    LET r == get_release_pkg_schema_obj(o, TRUE, n, file)
    IN  IF r.raised # None
        THEN [self |-> r.self, report |-> Report({}, r.raised)]
        ELSE [self |-> r.self,
              report |-> Report(json_data.fields \ DeclaredIn(r.value.items), None)]

\* lines 530-552: _get_schema_deprecated_paths dereferences the package
get_json_data_deprecated_fields(json_data, o, n, file) ==
    LET r == get_release_pkg_schema_obj(o, TRUE, n, file)
    IN  IF r.raised # None
        THEN [self |-> r.self, report |-> Report({}, r.raised)]
        ELSE [self |-> r.self,
              report |-> Report(json_data.fields \cap DeclaredIn(r.value.items), None)]

\* The codelist file an extension field names.
CodelistOf(field) ==
    LET u == CHOOSE x \in ExtensionUrls : FieldOf(x) = field IN u[1] \o ".csv"

\* lines 643-683: _get_schema_codelist_paths dereferences the package, the
\* files are loaded through the cache.
get_additional_codelist_values(json_data, o, n, file, c, ok) ==
    LET r == get_release_pkg_schema_obj(o, TRUE, n, file)
    IN  IF r.raised # None
        THEN [self |-> r.self, cache |-> c, report |-> Report({}, r.raised)]
        ELSE LET paths == DeclaredIn(r.value.items)
                 unique_files == {"base.csv"} \cup {CodelistOf(f) : f \in paths}
                 l == CachedLoad(c, <<codelist_url, unique_files>>, ok)
             IN  [self |-> r.self, cache |-> l.cache,
                  report |-> Report({f \in json_data.fields \cap paths :
                                        /\ CodelistOf(f) \in DOMAIN l.result
                                        /\ "bad code" \notin DOMAIN l.result[CodelistOf(f)]},
                                    None)]

(***************************************************************************)
(* One SchemaOCDS object in use: built from release_data, then called by   *)
(* the analyzers and by its other users.  The hosts answer the same way    *)
(* throughout a run (net does not change).                                 *)
(***************************************************************************)
MaxCalls == 3

Networks(data) ==
    [ext : [{data.extensions[i] : i \in DOMAIN data.extensions} -> NetOutcomes],
     codelists_ok : BOOLEAN]

CodelistAnswers(n) == [f \in CodelistFiles |-> n.codelists_ok]

Init ==
    /\ pc = "built"
    /\ select_version = None
    /\ release_data \in ReleaseData({None, "1.1"}, ExtensionLists, SUBSET ExtensionFields)
    /\ self = SchemaOCDS(select_version, release_data)
    /\ net \in Networks(release_data)
    /\ fs = NoFile
    /\ frag = [a \in Analyzers |-> NotRun]
    /\ raised = None
    /\ ncalls = 0
    /\ others = FALSE
    /\ seen = NothingSeen
    /\ CodelistIdle
    /\ ValidationIdle
    /\ UniqueIdle
    /\ FieldsIdle
    /\ ResolverIdle
    /\ ValuesIdle
    /\ DeprecatedIdle

Called(r) ==
    /\ pc = "built"
    /\ ncalls < MaxCalls
    /\ ncalls' = ncalls + 1
    /\ self' = r.self
    /\ UNCHANGED <<pc, select_version, release_data, net, call, http_log>>
    /\ UNCHANGED <<validationVars, uniqueVars, fieldVars, deprecatedVars, valuesVars, resolverVars>>

\* lines 218-222: does get_release_schema_obj call apply_extensions (which
\* returns at once without extensions)
CallsApplyExtensions(o) == o.extended_schema_file = None /\ o.extensions # << >>

Analyzed(a, r) ==
    /\ Called(r)
    /\ frag' = [frag EXCEPT ![a] = r.report]
    /\ raised' = r.report.raised
    /\ seen' = IF a # "get_schema_validation_errors" /\ CallsApplyExtensions(self)
               THEN [seen EXCEPT !.applied = TRUE] ELSE seen
    /\ UNCHANGED <<fs, others>>

ValidationErrors ==
    /\ Analyzed("get_schema_validation_errors",
                get_schema_validation_errors(release_data, self, fs))
    /\ UNCHANGED cache

AdditionalFields ==
    /\ Analyzed("get_counts_additional_fields",
                get_counts_additional_fields(release_data, self, net.ext, fs))
    /\ UNCHANGED cache

DeprecatedFields ==
    /\ Analyzed("get_json_data_deprecated_fields",
                get_json_data_deprecated_fields(release_data, self, net.ext, fs))
    /\ UNCHANGED cache

AdditionalCodelistValues ==
    LET r == get_additional_codelist_values(release_data, self, net.ext, fs, cache,
                                            CodelistAnswers(net))
    IN  /\ Analyzed("get_additional_codelist_values", r)
        /\ cache' = r.cache

GetReleaseSchemaObj(deref) ==
    LET r == get_release_schema_obj(self, deref, net.ext, fs)
    IN  /\ Called(r)
        /\ raised' = r.raised
        /\ others' = TRUE
        /\ seen' = [seen EXCEPT
                       !.schema = IF deref /\ r.raised = None THEN @ \cup {r.value} ELSE @,
                       !.applied = @ \/ CallsApplyExtensions(self)]
        /\ UNCHANGED <<fs, frag, cache>>

GetReleasePkgSchemaObj(deref) ==
    LET r == get_release_pkg_schema_obj(self, deref, net.ext, fs)
    IN  /\ Called(r)
        /\ raised' = r.raised
        /\ others' = TRUE
        /\ seen' = [seen EXCEPT
                       !.pkg = IF deref /\ r.raised = None THEN @ \cup {r.value} ELSE @,
                       !.applied = @ \/ (deref /\ CallsApplyExtensions(self))]
        /\ UNCHANGED <<fs, frag, cache>>

CreateExtendedReleaseSchemaFile ==
    LET r == create_extended_release_schema_file(self, net.ext, fs)
    IN  /\ Called(r)
        /\ raised' = r.raised
        /\ fs' = r.file
        /\ others' = TRUE
        /\ seen' = [seen EXCEPT
                       !.applied = @ \/ (self.extended /\ fs = NoFile
                                         /\ CallsApplyExtensions(self))]
        /\ UNCHANGED <<frag, cache>>

Next ==
    \/ ValidationErrors
    \/ AdditionalFields
    \/ DeprecatedFields
    \/ AdditionalCodelistValues
    \/ \E deref \in BOOLEAN : GetReleaseSchemaObj(deref)
    \/ \E deref \in BOOLEAN : GetReleasePkgSchemaObj(deref)
    \/ CreateExtendedReleaseSchemaFile

Spec == Init /\ [][Next]_vars

(***************************************************************************)
(* Claims about the object in use (Spec).                                  *)
(***************************************************************************)
Fresh == SchemaOCDS(select_version, release_data)

\* What an analyzer reports when it is the first call on the fresh object.
FirstReport(a) ==
    CASE a = "get_schema_validation_errors" ->
            get_schema_validation_errors(release_data, Fresh, NoFile).report
      [] a = "get_counts_additional_fields" ->
            get_counts_additional_fields(release_data, Fresh, net.ext, NoFile).report
      [] a = "get_json_data_deprecated_fields" ->
            get_json_data_deprecated_fields(release_data, Fresh, net.ext, NoFile).report
      [] OTHER ->
            get_additional_codelist_values(release_data, Fresh, net.ext, NoFile, << >>,
                                           CodelistAnswers(net)).report

\* No analyzer call changes extended, extensions or invalid_extension.
C1_NoMutation ==
    ~others =>
        /\ self.extended = Fresh.extended
        /\ self.extensions = Fresh.extensions
        /\ self.invalid_extension = Fresh.invalid_extension

\* Whatever ran before it, an analyzer reports what it reports when run first.
C1_AnyOrder ==
    ~others => \A a \in Analyzers : frag[a].run => frag[a] = FirstReport(a)

\* C1 as stated: on a freshly built object (extensions declared or not) the
\* four analyzers yield the same fragments in every order, and none of them
\* changes the object's extended, extensions or invalid_extension.
C1_AsStated == C1_NoMutation /\ C1_AnyOrder

Processed(d) ==
    IF net.ext[d] = "ok"
    THEN self.extensions[d] # << >>
    ELSE /\ d \in DOMAIN self.invalid_extension
         /\ self.invalid_extension[d] \in {"fetching failed", "invalid JSON", "404: not found"}

Touched ==
    \E d \in DOMAIN self.extensions :
        d \in DOMAIN self.invalid_extension \/ self.extensions[d] # << >>

\* C2 as stated: no failure of one extension (its descriptor's included)
\* escapes apply_extensions, and once the loop has run every declared
\* extension has been processed: applied, or recorded with its reason.
C2_AsStated ==
    /\ raised # DescriptorError
    /\ Touched => \A d \in DOMAIN self.extensions : Processed(d)

(***************************************************************************)
(* Construction on its own: every argument pair, then __init__.            *)
(***************************************************************************)
InitConstruct ==
    /\ pc = "new"
    /\ select_version \in VersionValues
    /\ release_data \in ReleaseData(VersionValues, ExtensionLists, {{}})
    /\ self = NoObject
    /\ SchemaIdle
    /\ CodelistIdle
    /\ ValidationIdle
    /\ UniqueIdle
    /\ FieldsIdle
    /\ ResolverIdle
    /\ ValuesIdle
    /\ DeprecatedIdle

Construct ==
    /\ pc = "new"
    /\ self' = SchemaOCDS(select_version, release_data)
    /\ pc' = "built"
    /\ UNCHANGED <<select_version, release_data, net, fs, frag, raised, ncalls, others,
                   seen>>
    /\ UNCHANGED <<codelistVars, validationVars, uniqueVars, fieldVars, deprecatedVars, valuesVars, resolverVars>>

NextConstruct == Construct

SpecConstruct == InitConstruct /\ [][NextConstruct]_vars

(***************************************************************************)
(* Claims about construction (SpecConstruct).                              *)
(***************************************************************************)
ValidChoice(v) == v \in DOMAIN version_choices

DataDeclares(data) == ~data.empty /\ Truthy(data.version)

\* C3: the version is the valid select_version if there is one, otherwise the
\* valid version of the data if there is one, otherwise the default version;
\* and schema_host is the host configured for that version.
C3_VersionPrecedence ==
    pc = "built" =>
        /\ self.version =
              IF ValidChoice(select_version) THEN select_version
              ELSE IF DataDeclares(release_data) /\ ValidChoice(release_data.version)
                   THEN release_data.version
                   ELSE default_version
        /\ self.schema_host = version_choices[self.version][2]

C3_Witness ==
    /\ pc = "built"
    /\ ValidChoice(select_version)
    /\ DataDeclares(release_data) /\ ValidChoice(release_data.version)
    /\ release_data.version # select_version
    /\ self.version = select_version

InvalidSelection == Truthy(select_version) /\ ~ValidChoice(select_version)

\* C4 as stated: an invalid explicit select_version sets
\* invalid_version_argument and leaves schema_host at default_schema_host,
\* whatever release_data is.
C4_AsStated ==
    (pc = "built" /\ InvalidSelection) =>
        /\ self.invalid_version_argument
        /\ self.schema_host = default_schema_host

\* C4 amended: an invalid explicit select_version sets
\* invalid_version_argument and the host falls back to that of the valid
\* version the data declares, or to default_schema_host when the data
\* declares none.
C4_InvalidArgumentFallback ==
    (pc = "built" /\ InvalidSelection) =>
        /\ self.invalid_version_argument
        /\ self.schema_host =
              IF DataDeclares(release_data) /\ ValidChoice(release_data.version)
              THEN version_choices[release_data.version][2]
              ELSE default_schema_host

C4_Witness ==
    /\ pc = "built"
    /\ InvalidSelection
    /\ DataDeclares(release_data) /\ ValidChoice(release_data.version)
    /\ release_data.version # default_version
    /\ self.invalid_version_argument
    /\ self.schema_host # default_schema_host

InvalidDataVersion == DataDeclares(release_data) /\ ~ValidChoice(release_data.version)

Usable == ValidChoice(self.version) /\ self.schema_host = version_choices[self.version][2]

MaxErrors == 3

Name(s) == [int |-> FALSE, s |-> s]

Index(s) == [int |-> TRUE, s |-> s]

Indices == {"0", "1", "2"}

\* "/".join(str(item) for item in e.path)
JoinPath(path) == [k \in DOMAIN path |-> path[k].s]

\* "/".join(str(item) for item in e.path if not isinstance(item, int))
RECURSIVE JoinNoNumber(_)
JoinNoNumber(path) ==
    IF path = << >> THEN << >>
    ELSE IF path[1].int THEN JoinNoNumber(Tail(path))
         ELSE <<path[1].s>> \o JoinNoNumber(Tail(path))

JoinNoNumber_keep(path) == JoinPath(path)

\* path_no_number + '/' + e.message
HeadingKey(path_no_number, message) ==
    IF path_no_number = << >> THEN <<"", message>> ELSE Append(path_no_number, message)

validation_error_lookup ==
    [k \in {"date-time", "uri", "string", "integer", "number", "object", "array"} |->
        CASE k = "date-time" -> "Date is not in the correct format"
          [] k = "uri" -> "Invalid 'uri' found"
          [] k = "string" -> "Value is not a string"
          [] k = "integer" -> "Value is not a integer"
          [] k = "number" -> "Value is not a number"
          [] k = "object" -> "Value is not an object"
          [] OTHER -> "Value is not an array"]

\* lines 401-409: the kind, and the message a format/type error gets
ValidatorType(e) ==
    IF e.validator \in {"format", "type"}
    THEN IF e.validator_value.list THEN e.validator_value.v[1] ELSE e.validator_value.v
    ELSE e.validator

LookedUp(e) ==
    IF e.validator \in {"format", "type"} /\ ValidatorType(e) \in DOMAIN validation_error_lookup
    THEN validation_error_lookup[ValidatorType(e)]
    ELSE e.message

\* lines 411-422: the occurrence record
Occurrence(e, csm) ==
    LET path == JoinPath(e.path)
        v0 == ("path" :> path)
        first_reference == csm[path][1]
        v1 == IF path \in DOMAIN csm /\ csm[path] # << >>
              THEN IF Len(first_reference) = 4
                   THEN v0 @@ ("sheet" :> first_reference[1]) @@ ("col_alpha" :> first_reference[2])
                           @@ ("row_number" :> first_reference[3]) @@ ("header" :> first_reference[4])
                   ELSE IF Len(first_reference) = 2
                        THEN v0 @@ ("sheet" :> first_reference[1]) @@ ("row_number" :> first_reference[2])
                        ELSE v0
              ELSE v0
    IN  IF e.instance.scalar THEN v1 @@ ("value" :> e.instance.v) ELSE v1

\* lines 424-437: a 'required' error
RequiredName(e, hsm) ==
    LET len == Len(e.path)
        parent_name == IF e.path[len - 1].int THEN e.path[len] ELSE e.path[len - 1]
        field_name == IF len > 2 THEN parent_name.s \o ":" \o e.message ELSE e.message
        key == HeadingKey(JoinNoNumber(e.path), e.message)
    IN  IF key \in DOMAIN hsm /\ hsm[key] # << >> THEN hsm[key][1][2] ELSE field_name

\* lines 441-443: the name an 'enum' error is reported under
EnumHeader(e, value) ==
    IF "header" \in DOMAIN value /\ value["header"] # ""
    THEN value["header"]
    ELSE e.path[Len(e.path)].s

\* One turn of the loop: skip is the `continue` of line 440, otherwise the
\* key of line 446 and the record appended under it.
Handle(e, csm, hsm) ==
    LET value0 == Occurrence(e, csm)
        key == HeadingKey(JoinNoNumber(e.path), e.message)
        heading == e.validator = "required" /\ key \in DOMAIN hsm /\ hsm[key] # << >>
        value == IF heading THEN ("header" :> hsm[key][1][2]) @@ value0 ELSE value0
        message == CASE e.validator = "required" ->
                          "'" \o RequiredName(e, hsm) \o "' is missing but required"
                     [] e.validator = "enum" ->
                          "Invalid code found in '" \o EnumHeader(e, value) \o "'"
                     [] OTHER -> LookedUp(e)
    IN  [skip |-> e.validator = "enum" /\ e.schema.isCodelist,
         key |-> <<ValidatorType(e), message, JoinNoNumber(e.path)>>,
         value |-> value]

\* validation_errors[key].append(value)
AppendTo(d, key, value) ==
    IF key \in DOMAIN d THEN [d EXCEPT ![key] = Append(@, value)]
    ELSE (key :> <<value>>) @@ d

(***************************************************************************)
(* The errors a validator run can hand to the loop.                        *)
(***************************************************************************)
Err(validator, validator_value, message, path, value, isCodelist) ==
    [validator |-> validator, validator_value |-> validator_value, message |-> message,
     path |-> path, instance |-> value, schema |-> [isCodelist |-> isCodelist]]

Single(v) == [list |-> FALSE, v |-> v]

List(v) == [list |-> TRUE, v |-> v]

Object == [scalar |-> FALSE, v |-> ""]

Scalar(v) == [scalar |-> TRUE, v |-> v]

RawErrors ==
    \* an item without its required id
    {Err("required", List(<<"id">>), "id", <<Name("items"), Index(k)>>, Object, FALSE)
        : k \in Indices}
    \cup
    \* a nested object without its required id
    {Err("required", List(<<"id">>), "id",
         <<Name("releases"), Index(k), Name("tender")>>, Object, FALSE) : k \in {"0", "1"}}
    \cup
    \* a quantity that is no integer; the raw message quotes the value
    {Err("type", List(<<"integer", "null">>), "'" \o k \o "' is not of type 'integer', 'null'",
         <<Name("items"), Index(k), Name("quantity")>>, Scalar(k), FALSE) : k \in {"0", "1"}}
    \cup
    \* a date in the wrong format
    {Err("format", Single("date-time"), "'x' is not a 'date-time'",
         <<Name("items"), Index(k), Name("date")>>, Scalar("x"), FALSE) : k \in {"0", "1"}}
    \cup
    \* a status outside its enum
    {Err("enum", List(<<"active">>), "'x' is not one of ['active']",
         <<Name("items"), Index(k), Name("status")>>, Scalar("x"), FALSE) : k \in {"0", "1"}}
    \cup
    \* an element of an array of enum strings, the items node flagged
    \* isCodelist (add_is_codelist) or not
    {Err("enum", List(<<"planning">>), "'x' is not one of ['planning']",
         <<Name("tag"), Index(k)>>, Scalar("x"), c) : k \in {"0", "1"}, c \in BOOLEAN}
    \cup
    \* a name that is too short
    {Err("minLength", Single("1"), "'' is too short",
         <<Name("items"), Index(k), Name("name")>>, Scalar(""), FALSE) : k \in {"0", "1"}}

ErrorStreams ==
    {s \in UNION {[1..k -> RawErrors] : k \in 0..MaxErrors} :
        \A a, b \in DOMAIN s : a # b => s[a] # s[b]}

\* No source map (JSON input), or the map of a spreadsheet: a cell with its
\* column header for item 0, a row for item 1.
CellSourceMaps ==
    {<< >>,
     (<<"items", "0", "status">> :> <<<<"sheet", "C", "2", "status">>>>)
        @@ (<<"items", "1", "status">> :> <<<<"sheet", "3">>>>)}

HeadingSourceMaps ==
    {<< >>, (<<"items", "id">> :> <<<<"sheet", "Item ID">>>>)}

InitValidation ==
    /\ pc = "new"
    /\ select_version = None
    /\ release_data = [empty |-> TRUE, version |-> None, extensions |-> << >>, fields |-> {}]
    /\ self = NoObject
    /\ SchemaIdle
    /\ CodelistIdle
    /\ UniqueIdle
    /\ FieldsIdle
    /\ ResolverIdle
    /\ ValuesIdle
    /\ DeprecatedIdle
    /\ errors \in ErrorStreams
    /\ cell_source_map \in CellSourceMaps
    /\ heading_source_map \in HeadingSourceMaps
    /\ consumed = 0
    /\ validation_errors = << >>
    /\ returned = FALSE

\* for n, e in enumerate(our_validator.iter_errors(json_data)): ...
HandleError ==
    /\ ~returned
    /\ consumed < Len(errors)
    /\ LET h == Handle(errors[consumed + 1], cell_source_map, heading_source_map)
       IN  validation_errors' = IF h.skip THEN validation_errors
                                ELSE AppendTo(validation_errors, h.key, h.value)
    /\ consumed' = consumed + 1
    /\ UNCHANGED <<errors, cell_source_map, heading_source_map, returned>>

\* return dict(validation_errors)
ReturnErrors ==
    /\ ~returned
    /\ consumed = Len(errors)
    /\ returned' = TRUE
    /\ UNCHANGED <<errors, cell_source_map, heading_source_map, consumed, validation_errors>>

NextValidation ==
    \/ HandleError /\ UNCHANGED <<schemaVars, codelistVars, uniqueVars, fieldVars, deprecatedVars, valuesVars, resolverVars>>
    \/ ReturnErrors /\ UNCHANGED <<schemaVars, codelistVars, uniqueVars, fieldVars, deprecatedVars, valuesVars, resolverVars>>

SpecValidation == InitValidation /\ [][NextValidation]_vars


(***************************************************************************)
(* Claims about the grouping of validation errors (SpecValidation).        *)
(***************************************************************************)
\* Two raw errors that differ in nothing but array indices of their path.
SameButIndices(e1, e2) ==
    /\ e1.validator = e2.validator
    /\ e1.validator_value = e2.validator_value
    /\ e1.message = e2.message
    /\ e1.instance = e2.instance
    /\ e1.schema = e2.schema
    /\ Len(e1.path) = Len(e2.path)
    /\ \A k \in DOMAIN e1.path :
          /\ e1.path[k].int = e2.path[k].int
          /\ ~e1.path[k].int => e1.path[k] = e2.path[k]

\* The source map gives both the same column header, or none to either.
SameHeader(e1, e2) ==
    LET v1 == Occurrence(e1, cell_source_map)
        v2 == Occurrence(e2, cell_source_map)
    IN  /\ ("header" \in DOMAIN v1) = ("header" \in DOMAIN v2)
        /\ "header" \in DOMAIN v1 => v1["header"] = v2["header"]

\* Errors the report is meant to hold (enum errors of codelist nodes are
\* left to get_additional_codelist_values).
Reported(e) == ~(e.validator = "enum" /\ e.schema.isCodelist)

HoldsPathOf(entry, e) ==
    \E p \in DOMAIN entry : entry[p]["path"] = JoinPath(e.path)

RECURSIVE TotalRecords(_, _)
TotalRecords(d, keys) ==
    IF keys = {} THEN 0
    ELSE LET k == CHOOSE x \in keys : TRUE
         IN  Len(d[k]) + TotalRecords(d, keys \ {k})

\* C8 as stated: errors that differ only in array indices of their path end
\* in one entry, each with a record keeping its own path, one record per
\* error; errors of different kind, final message or index-free path never
\* share an entry.
C8_AsStated ==
    returned =>
        /\ \A a, b \in DOMAIN errors :
              (/\ Reported(errors[a]) /\ Reported(errors[b])
               /\ SameButIndices(errors[a], errors[b])
               /\ SameHeader(errors[a], errors[b]))
              => \E k \in DOMAIN validation_errors :
                    /\ HoldsPathOf(validation_errors[k], errors[a])
                    /\ HoldsPathOf(validation_errors[k], errors[b])
        /\ TotalRecords(validation_errors, DOMAIN validation_errors)
              = Cardinality({a \in DOMAIN errors : Reported(errors[a])})
        /\ \A k \in DOMAIN validation_errors :
              \A a \in DOMAIN errors :
                 (Reported(errors[a]) /\ HoldsPathOf(validation_errors[k], errors[a]))
                 => \E b \in DOMAIN errors :
                       /\ JoinPath(errors[b].path) = JoinPath(errors[a].path)
                       /\ Handle(errors[b], cell_source_map, heading_source_map).key = k


(***************************************************************************)
(* unique_ids (lines 277-300), the validator's uniqueItems rule.  An item  *)
(* of the array is a dict or not; a dict has no id, a scalar id or an id   *)
(* that is a list or dict; x tells items with the same id apart.           *)
(***************************************************************************)
MaxItems == 3

Item(dict, idkind, id, x) == [dict |-> dict, idkind |-> idkind, id |-> id, x |-> x]

Items ==
    {Item(FALSE, "none", 0, x) : x \in {0, 1}}
    \cup {Item(TRUE, "none", 0, x) : x \in {0, 1}}
    \cup {Item(TRUE, "scalar", id, x) : id \in {0, 1, 2}, x \in {0, 1}}
    \cup {Item(TRUE, "container", 0, 0)}

Array(items) == [array |-> TRUE, items |-> items]

NotAnArray == [array |-> FALSE, items |-> << >>]

\* Each id of ids twice: arrays with up to four repeated ids.
RECURSIVE Doubled(_)
Doubled(ids) ==
    IF ids = {} THEN << >>
    ELSE LET m == CHOOSE x \in ids : \A y \in ids : x <= y
         IN  <<Item(TRUE, "scalar", m, 0), Item(TRUE, "scalar", m, 1)>> \o Doubled(ids \ {m})

Instances ==
    {NotAnArray}
    \cup {Array(s) : s \in UNION {[1..k -> Items] : k \in 0..MaxItems}}
    \cup {Array(Doubled(ids)) : ids \in SUBSET {1, 2, 3, 4}}

\* item.get('id'), None for an item that is no dict or has no id
ItemId(item) ==
    IF item.dict /\ item.idkind # "none"
    THEN [none |-> FALSE, container |-> item.idkind = "container", v |-> item.id]
    ELSE [none |-> TRUE, container |-> FALSE, v |-> 0]

UsableId_any_scalar(item_id) == ~item_id.none /\ ~item_id.container

\* line 287: item_id and not isinstance(item_id, list) and not isinstance(item_id, dict)
UsableId(item_id) ==
    /\ ~item_id.none
    /\ item_id.container \/ item_id.v # 0
    /\ ~item_id.container

\* uniqueItemsValidator, the library's rule popped at line 22
uniqueItemsValidator(u, inst) ==
    IF u /\ inst.array
       /\ \E a, b \in DOMAIN inst.items : a # b /\ inst.items[a] = inst.items[b]
    THEN <<[message |-> "has non-unique elements", ids |-> {}]>>
    ELSE << >>

\* line 300: list(non_unique_ids)[:3], the set's order being the library's
Shown(ids) ==
    {s \in SUBSET ids : Cardinality(s) = IF Cardinality(ids) < 3 THEN Cardinality(ids) ELSE 3}

InitUnique ==
    /\ pc = "new"
    /\ select_version = None
    /\ release_data = [empty |-> TRUE, version |-> None, extensions |-> << >>, fields |-> {}]
    /\ self = NoObject
    /\ SchemaIdle
    /\ CodelistIdle
    /\ ValidationIdle
    /\ FieldsIdle
    /\ ResolverIdle
    /\ ValuesIdle
    /\ DeprecatedIdle
    /\ ui \in BOOLEAN
    /\ instance \in Instances
    /\ visited = 0
    /\ all_ids = {}
    /\ non_unique_ids = {}
    /\ yielded = << >>
    /\ finished = FALSE

Guard == ui /\ instance.array

\* line 278 false: the generator ends at once
NotChecked ==
    /\ ~finished /\ ~Guard
    /\ finished' = TRUE
    /\ UNCHANGED <<ui, instance, visited, all_ids, non_unique_ids, yielded>>

\* lines 281-290: an item with a usable id
VisitItem ==
    /\ ~finished /\ Guard
    /\ visited < Len(instance.items)
    /\ LET item_id == ItemId(instance.items[visited + 1])
       IN  /\ UsableId(item_id)
           /\ non_unique_ids' = IF item_id.v \in all_ids
                                THEN non_unique_ids \cup {item_id.v}
                                ELSE non_unique_ids
           /\ all_ids' = all_ids \cup {item_id.v}
    /\ visited' = visited + 1
    /\ UNCHANGED <<ui, instance, yielded, finished>>

\* lines 291-296: any other item hands the array to the original rule
Revert ==
    /\ ~finished /\ Guard
    /\ visited < Len(instance.items)
    /\ ~UsableId(ItemId(instance.items[visited + 1]))
    /\ yielded' = yielded \o uniqueItemsValidator(ui, instance)
    /\ finished' = TRUE
    /\ UNCHANGED <<ui, instance, visited, all_ids, non_unique_ids>>

\* lines 298-300: after the loop
EndOfItems ==
    /\ ~finished /\ Guard
    /\ visited = Len(instance.items)
    /\ IF non_unique_ids # {}
       THEN \E shown \in Shown(non_unique_ids) :
               yielded' = Append(yielded,
                                 [message |-> "Non-unique ID Values (first 3 shown):  ",
                                  ids |-> shown])
       ELSE yielded' = yielded
    /\ finished' = TRUE
    /\ UNCHANGED <<ui, instance, visited, all_ids, non_unique_ids>>

NextUnique ==
    \/ NotChecked /\ UNCHANGED <<schemaVars, codelistVars, validationVars, fieldVars, deprecatedVars, valuesVars, resolverVars>>
    \/ VisitItem /\ UNCHANGED <<schemaVars, codelistVars, validationVars, fieldVars, deprecatedVars, valuesVars, resolverVars>>
    \/ Revert /\ UNCHANGED <<schemaVars, codelistVars, validationVars, fieldVars, deprecatedVars, valuesVars, resolverVars>>
    \/ EndOfItems /\ UNCHANGED <<schemaVars, codelistVars, validationVars, fieldVars, deprecatedVars, valuesVars, resolverVars>>

SpecUnique == InitUnique /\ [][NextUnique]_vars

(***************************************************************************)
(* Claims about unique_ids (SpecUnique).                                   *)
(***************************************************************************)
\* Every element is an object with an id that is no list or object.
AllHaveScalarId ==
    \A k \in DOMAIN instance.items :
        instance.items[k].dict /\ instance.items[k].idkind = "scalar"

RepeatedIds ==
    {instance.items[a].id : a \in {k \in DOMAIN instance.items :
        \E b \in DOMAIN instance.items : b # k /\ instance.items[b].id = instance.items[k].id}}

\* C9 as stated: for an array whose elements all are objects with a scalar
\* id, one error listing at most 3 repeated ids when an id repeats and no
\* error otherwise; for any other array the outcome of the standard rule.
C9_AsStated ==
    (finished /\ Guard) =>
        IF AllHaveScalarId
        THEN IF RepeatedIds # {}
             THEN /\ Len(yielded) = 1
                  /\ yielded[1].message = "Non-unique ID Values (first 3 shown):  "
                  /\ yielded[1].ids # {}
                  /\ yielded[1].ids \subseteq RepeatedIds
                  /\ Cardinality(yielded[1].ids) <= 3
             ELSE yielded = << >>
        ELSE yielded = uniqueItemsValidator(ui, instance)


(***************************************************************************)
(* get_counts_additional_fields (lines 357-376) with                       *)
(* fields_present_generator / get_fields_present (316-335) and             *)
(* schema_dict_fields_generator (338-354).  A JSON value is a scalar, a    *)
(* dict m or a list e; a field path '/a/b' is <<"a", "b">>.                *)
(***************************************************************************)
MaxList == 2

Dict(m) == [t |-> "o", m |-> m]

Lst(e) == [t |-> "l", e |-> e]

NestedKeys == {"baz", "name_en"}

NestedDicts == {Dict([k \in keys |-> JsonScalar]) : keys \in SUBSET NestedKeys}

Lists(elements) == {Lst(e) : e \in UNION {[1..k -> elements] : k \in 0..MaxList}}

\* What the document holds under foo and under bar (Absent: no such key).
Absent == [t |-> "absent"]

FooValues ==
    {Absent} \cup {JsonScalar} \cup NestedDicts \cup Lists({JsonScalar} \cup NestedDicts)

BarValues ==
    {Absent} \cup {JsonScalar} \cup NestedDicts
    \cup {Dict([k \in {"baz"} |-> Dict([j \in {"qux"} |-> JsonScalar])])}

TopLevel(foo, bar) ==
    Dict([k \in {x \in {"foo", "bar"} :
                    (x = "foo" /\ foo # Absent) \/ (x = "bar" /\ bar # Absent)}
            |-> IF k = "foo" THEN foo ELSE bar])

JsonDocuments ==
    {TopLevel(foo, bar) : foo \in FooValues, bar \in BarValues}
    \cup {JsonScalar, Lst(<<Dict([k \in {"foo"} |-> JsonScalar])>>)}

\* A property schema: its type and, for an object its properties, for an
\* array the properties of its items.  A property is the list of its oneOf
\* alternatives, or the one schema it is.
Typed(type, names) ==
    [type |-> type, properties |-> [k \in names |-> <<[type |-> "string", properties |-> << >>]>>]]

FooSchemas ==
    {<<Typed("string", {})>>}
    \cup {<<Typed(type, names)>> : type \in {"object", "array"}, names \in SUBSET NestedKeys}
    \cup {<<Typed("string", {}), Typed("object", {"baz"})>>}

SchemaTrees ==
    {[properties |-> p] :
        p \in UNION {[names -> FooSchemas \cup {<<Typed("string", {})>>}] :
                        names \in SUBSET {"foo", "bar"}}}

\* LANGUAGE_RE.search(name), line 24: the names with a language suffix
LANGUAGE_RE(name) == name \in {"name_en"}

RECURSIVE fields_present_generator(_, _), present_in_items(_, _), present_in_dict(_, _, _)

\* lines 321-324: the dict items of a list
present_in_items(items, prefix) ==
    IF items = << >> THEN << >>
    ELSE (IF items[1].t = "o"
          THEN fields_present_generator(items[1], prefix) ELSE << >>)
         \o present_in_items(Tail(items), prefix)

\* lines 319-329: the keys of a dict, in the dict's order
present_in_dict(m, keys, prefix) ==
    IF keys = {} THEN << >>
    ELSE LET key == CHOOSE k \in keys : TRUE
             value == m[key]
             here == Append(prefix, key)
             yields == CASE value.t = "l" -> present_in_items(value.e, here) \o <<here>>
                         [] value.t = "o" -> fields_present_generator(value, here) \o <<here>>
                         [] OTHER -> <<here>>
         IN  yields \o present_in_dict(m, keys \ {key}, prefix)

\* lines 316-329
fields_present_generator(value, prefix) ==
    IF value.t # "o" THEN << >> ELSE present_in_dict(value.m, DOMAIN value.m, prefix)

\* lines 332-335: the Counter of what the generator yields
get_fields_present(value) ==
    LET yields == fields_present_generator(value, << >>)
    IN  [p \in {yields[k] : k \in DOMAIN yields} |->
            Cardinality({k \in DOMAIN yields : yields[k] = p})]

RECURSIVE schema_dict_fields_generator(_), fields_of_properties(_, _), fields_of_alternatives(_, _)

\* lines 345-354: one property, alternative by alternative
fields_of_alternatives(property_name, alternatives) ==
    IF alternatives = << >> THEN {}
    ELSE LET property_schema_dict == alternatives[1]
             below == IF property_schema_dict.type \in {"object", "array"}
                      THEN schema_dict_fields_generator(property_schema_dict)
                      ELSE {}
         IN  {<<property_name>> \o field : field \in below}
             \cup {<<property_name>>}
             \cup fields_of_alternatives(property_name, Tail(alternatives))

fields_of_properties(properties, names) ==
    IF names = {} THEN {}
    ELSE LET property_name == CHOOSE k \in names : TRUE
         IN  fields_of_alternatives(property_name, properties[property_name])
             \cup fields_of_properties(properties, names \ {property_name})

\* lines 338-354, as the set get_release_pkg_schema_fields makes of it
schema_dict_fields_generator(schema_dict) ==
    fields_of_properties(schema_dict.properties, DOMAIN schema_dict.properties)

\* "/".join(field.split('/')[:-1])
ParentField(field) == SubSeq(field, 1, Len(field) - 1)

KeepField_any_parent(field, schema_fields) == TRUE

\* line 370: not parent_field or parent_field in schema_fields
KeepField(field, schema_fields) ==
    ParentField(field) = << >> \/ ParentField(field) \in schema_fields

\* lines 363-376
counts_additional_fields(value, schema_fields, regex) ==
    LET fields_present == get_fields_present(value)
        data_only_all == DOMAIN fields_present \ schema_fields
        data_only == {field \in data_only_all :
                        /\ KeepField(field, schema_fields)
                        /\ ~(regex /\ LANGUAGE_RE(field[Len(field)]))}
    IN  {<<ParentField(key), key[Len(key)], fields_present[key]>> : key \in data_only}

InitFields ==
    /\ pc = "new"
    /\ select_version = None
    /\ release_data = [empty |-> TRUE, version |-> None, extensions |-> << >>, fields |-> {}]
    /\ self = NoObject
    /\ SchemaIdle
    /\ CodelistIdle
    /\ ValidationIdle
    /\ UniqueIdle
    /\ DeprecatedIdle
    /\ ValuesIdle
    /\ ResolverIdle
    /\ json_document \in JsonDocuments
    /\ schema_tree \in SchemaTrees
    /\ fields_regex \in BOOLEAN
    /\ additional = NotCalled

GetCountsAdditionalFields ==
    /\ ~additional.called
    /\ additional' = [called |-> TRUE,
                      value |-> counts_additional_fields(
                                    json_document,
                                    schema_dict_fields_generator(schema_tree),
                                    fields_regex)]
    /\ UNCHANGED <<json_document, schema_tree, fields_regex>>

NextFields ==
    GetCountsAdditionalFields /\ UNCHANGED <<schemaVars, codelistVars, validationVars, uniqueVars, deprecatedVars, valuesVars, resolverVars>>

SpecFields == InitFields /\ [][NextFields]_vars

(***************************************************************************)
(* Claims about the additional fields (SpecFields).                        *)
(***************************************************************************)
AllNames == {"foo", "bar"} \cup NestedKeys \cup {"qux"}

AllPaths == UNION {[1..k -> AllNames] : k \in 1..3}

\* The number of objects of the document that hold the last name of path
\* and are reached by the names before it, lists of objects being entered.
RECURSIVE Occurrences(_, _)
Occurrences(value, path) ==
    CASE value.t = "o" ->
            IF path[1] \notin DOMAIN value.m THEN 0
            ELSE IF Len(path) = 1 THEN 1
                 ELSE IF value.m[path[1]].t = "l"
                      THEN LET e == value.m[path[1]].e
                               RECURSIVE Sum(_)
                               Sum(k) == IF k = 0 THEN 0
                                         ELSE Sum(k - 1) +
                                              (IF e[k].t = "o"
                                               THEN Occurrences(e[k], Tail(path)) ELSE 0)
                           IN  Sum(Len(e))
                      ELSE Occurrences(value.m[path[1]], Tail(path))
      [] OTHER -> 0

Declared == schema_dict_fields_generator(schema_tree)

Surplus ==
    {p \in AllPaths :
        /\ Occurrences(json_document, p) > 0
        /\ p \notin Declared
        /\ Len(p) = 1 \/ ParentField(p) \in Declared}

Triples(paths) == {<<ParentField(p), p[Len(p)], Occurrences(json_document, p)>> : p \in paths}

ReportedPaths == {Append(r[1], r[2]) : r \in additional.value}

NoDescendantOfUnknown ==
    \A p \in ReportedPaths :
        \A k \in 1..(Len(p) - 1) : SubSeq(p, 1, k) \in Declared

\* C10 as stated: the report is exactly the present fields that are not
\* declared and whose parent is empty or declared, each with the number of
\* its occurrences, and holds no descendant of an undeclared field.
C10_AsStated ==
    additional.called =>
        /\ additional.value = Triples(Surplus)
        /\ NoDescendantOfUnknown

\* C10 amended: the same, except that with fields_regex set the fields whose
\* name ends in a language tag are left out of the report.
C10_AdditionalFields ==
    additional.called =>
        /\ additional.value =
              Triples({p \in Surplus : ~(fields_regex /\ LANGUAGE_RE(p[Len(p)]))})
        /\ NoDescendantOfUnknown

\* bar is unknown and reported; bar/baz is present and not reported; a field
\* of the items of foo is counted twice.
C10_Witness ==
    /\ additional.called
    /\ \E r \in additional.value : r[1] = << >> /\ r[2] = "bar"
    /\ Occurrences(json_document, <<"bar", "baz">>) > 0
    /\ \A r \in additional.value : r[1] # <<"bar">>
    /\ \E r \in additional.value : r[1] = <<"foo">> /\ r[3] = 2


(***************************************************************************)
(* get_json_data_deprecated_fields (lines 530-552) with                    *)
(* _get_schema_deprecated_paths (451-487) and _get_json_data_generic_paths *)
(* (490-527).  A path is a tuple of segments, Name(key) or Index(str(i));  *)
(* a schema's properties are a list, in the order of the schema's dict.    *)
(***************************************************************************)
MaxDepItems == 2

IndexOf(k) == Index(ToString(k))

\* A property: how it is deprecated ("no", "direct": its own `deprecated`,
\* "reference": the `deprecated` of its __reference__), its type, and the
\* properties below it (of the object, or of the array's items).
Property(name, deprecated, type, properties) ==
    [name |-> name, deprecated |-> deprecated, type |-> type, properties |-> properties]

explanation(name) == <<"1.1", "use " \o name>>

DeprecationSchemas ==
    {[properties |->
        <<Property("items", "no", "array",
                   <<Property("legacyField", d1, "string", << >>),
                     Property("id", "no", "string", << >>)>>),
          Property("lots", "no", "array",
                   <<Property("legacyField", d2, "string", << >>)>>),
          Property("tender", "no", "object",
                   <<Property("amendment", d3, "object",
                              <<Property("date", "no", "string", << >>)>>)>>),
          Property("tags", d4, "array", << >>)>>]
     : d1 \in {"no", "direct", "reference"}, d2 \in {"no", "direct"},
       d3 \in {"no", "direct"}, d4 \in {"no", "direct"}}

DictOf(keys) == Dict([k \in keys |-> JsonScalar])

ItemDicts == {DictOf(keys) : keys \in SUBSET {"legacyField", "id"}}

DepItems == {Absent} \cup {Lst(e) : e \in UNION {[1..k -> ItemDicts] : k \in 0..MaxDepItems}}

DepLots == {Absent, Lst(<<DictOf({"legacyField"})>>), Lst(<<DictOf({})>>)}

DepTender ==
    {Absent, DictOf({}), DictOf({"amendment"}),
     Dict([k \in {"amendment"} |-> DictOf({})]),
     Dict([k \in {"amendment"} |-> DictOf({"date"})])}

DepTags == {Absent, Lst(<< >>), Lst(<<JsonScalar>>), Lst(<<JsonScalar, JsonScalar>>)}

DepDocument(items, lots, tender, tags) ==
    LET all == [k \in {"items", "lots", "tender", "tags"} |->
                   CASE k = "items" -> items [] k = "lots" -> lots
                     [] k = "tender" -> tender [] OTHER -> tags]
    IN  Dict([k \in {x \in DOMAIN all : all[x] # Absent} |-> all[k]])

DepDocuments ==
    {DepDocument(items, lots, tender, tags) :
        items \in DepItems, lots \in DepLots, tender \in DepTender, tags \in DepTags}

\* lines 463-485: the deprecated paths in the order of the walk
RECURSIVE schema_deprecated_paths(_, _)
schema_deprecated_paths(properties, current_path) ==
    IF properties = << >> THEN << >>
    ELSE LET value == properties[1]
             path == Append(current_path, Name(value.name))
             own == IF value.deprecated \in {"direct", "reference"}
                    THEN <<<<path, explanation(value.name)>>>> ELSE << >>
             below == IF value.type = "object"
                         \/ (value.type = "array" /\ value.properties # << >>)
                      THEN schema_deprecated_paths(value.properties, path)
                      ELSE << >>
         IN  own \o below \o schema_deprecated_paths(Tail(properties), current_path)

\* tuple(i for i in path + (key,) if type(i) != int)
RECURSIVE GenericKey(_)
GenericKey(path) ==
    IF path = << >> THEN << >>
    ELSE IF path[1].int THEN GenericKey(Tail(path))
         ELSE <<path[1]>> \o GenericKey(Tail(path))

\* What generic_paths holds under a key: {} or [] of an empty container,
\* or the dict of the concrete paths (the values are not used).
EmptyOf(kind) == [kind |-> kind, paths |-> {}]

\* lines 521-525
PutLeaf(generic_paths, path) ==
    LET generic_key == GenericKey(path)
    IN  IF generic_key \in DOMAIN generic_paths /\ generic_paths[generic_key].paths # {}
        THEN [generic_paths EXCEPT ![generic_key].paths = @ \cup {path}]
        ELSE (generic_key :> [kind |-> "dict", paths |-> {path}]) @@ generic_paths

RECURSIVE json_data_generic_paths(_, _, _), generic_paths_of_dict(_, _, _, _),
          generic_paths_of_list(_, _, _, _)

\* lines 517-525, one key or index with its value
generic_paths_step(value, here, generic_paths) ==
    IF value.t \in {"o", "l"}
    THEN json_data_generic_paths(value, here, generic_paths)
    ELSE PutLeaf(generic_paths, here)

generic_paths_of_dict(m, keys, path, generic_paths) ==
    IF keys = {} THEN generic_paths
    ELSE LET key == CHOOSE k \in keys : TRUE
         IN  generic_paths_of_dict(m, keys \ {key}, path,
                 generic_paths_step(m[key], Append(path, Name(key)), generic_paths))

generic_paths_of_list(e, k, path, generic_paths) ==
    IF k > Len(e) THEN generic_paths
    ELSE generic_paths_of_list(e, k + 1, path,
             generic_paths_step(e[k], Append(path, IndexOf(k - 1)), generic_paths))

\* lines 490-527
json_data_generic_paths(json_data, path, generic_paths) ==
    IF json_data.t = "o"
    THEN IF DOMAIN json_data.m = {}
         THEN (path :> EmptyOf("dict")) @@ generic_paths
         ELSE generic_paths_of_dict(json_data.m, DOMAIN json_data.m, path, generic_paths)
    ELSE IF json_data.e = << >>
         THEN (path :> EmptyOf("list")) @@ generic_paths
         ELSE generic_paths_of_list(json_data.e, 1, path, generic_paths)

\* The order of Python's strings on the names of the model
NameOrder == <<"amendment", "date", "id", "items", "legacyField", "lots", "tags", "tender">>

Rank(name) == CHOOSE k \in DOMAIN NameOrder : NameOrder[k] = name

SegmentLess(a, b) ==
    IF a.int THEN (CHOOSE k \in 0..9 : ToString(k) = a.s) < (CHOOSE k \in 0..9 : ToString(k) = b.s)
    ELSE Rank(a.s) < Rank(b.s)

\* the order of tuples
RECURSIVE PathLess(_, _)
PathLess(p, q) ==
    IF p = << >> THEN q # << >>
    ELSE IF q = << >> THEN FALSE
         ELSE IF p[1] = q[1] THEN PathLess(Tail(p), Tail(q))
              ELSE SegmentLess(p[1], q[1])

\* sorted(paths): the least first
RECURSIVE SortedPaths(_)
SortedPaths(paths) ==
    IF paths = {} THEN << >>
    ELSE LET least == CHOOSE p \in paths : \A q \in paths \ {p} : PathLess(p, q)
         IN  <<least>> \o SortedPaths(paths \ {least})

\* sorted(deprecated_paths_in_data, key=lambda tup: tup[0][-1]): stable
RECURSIVE SortedByName(_)
SortedByName(list) ==
    IF list = << >> THEN << >>
    ELSE LET last(t) == t[1][Len(t[1])].s
             first == CHOOSE k \in DOMAIN list :
                         \A j \in DOMAIN list :
                             \/ Rank(last(list[k])) < Rank(last(list[j]))
                             \/ Rank(last(list[k])) = Rank(last(list[j])) /\ k <= j
         IN  <<list[first]>> \o
             SortedByName([j \in 1..(Len(list) - 1) |->
                              IF j < first THEN list[j] ELSE list[j + 1]])

\* "/".join(map(str, sort_path[:-1]))
Slashed(sort_path) == [k \in 1..(Len(sort_path) - 1) |-> sort_path[k].s]

\* OrderedDict assignment: a key keeps the place of its first assignment
Assign(ordered, field, value) ==
    IF \E k \in DOMAIN ordered : ordered[k].field = field
    THEN [k \in DOMAIN ordered |->
             IF ordered[k].field = field THEN [field |-> field, value |-> value]
             ELSE ordered[k]]
    ELSE Append(ordered, [field |-> field, value |-> value])

\* lines 539-543
RECURSIVE deprecated_fields_of(_, _, _)
deprecated_fields_of(list, paths_in_data, deprecated_fields) ==
    IF list = << >> THEN deprecated_fields
    ELSE LET generic_path == list[1]
         IN  deprecated_fields_of(Tail(list), paths_in_data,
                 Assign(deprecated_fields, generic_path[1][Len(generic_path[1])].s,
                        [paths |-> paths_in_data[generic_path[1]].paths,
                         explanation |-> generic_path[2]]))

\* lines 530-552.  paths_in_data[...].keys() of line 541 raises
\* AttributeError when the entry is the [] of an empty list.
get_deprecated_fields(json_data, schema) ==
    LET deprecated_schema_paths == schema_deprecated_paths(schema.properties, << >>)
        paths_in_data == json_data_generic_paths(json_data, << >>, << >>)
        deprecated_paths_in_data ==
            SelectSeq(deprecated_schema_paths, LAMBDA p : p[1] \in DOMAIN paths_in_data)
        deprecated_fields ==
            deprecated_fields_of(SortedByName(deprecated_paths_in_data), paths_in_data, << >>)
    IN  IF \E k \in DOMAIN deprecated_paths_in_data :
               paths_in_data[deprecated_paths_in_data[k][1]].kind = "list"
        THEN [called |-> TRUE, raised |-> "AttributeError", value |-> << >>]
        ELSE [called |-> TRUE, raised |-> None,
              value |-> [k \in DOMAIN deprecated_fields |->
                            LET sorted_paths == SortedPaths(deprecated_fields[k].value.paths)
                            IN  [field |-> deprecated_fields[k].field,
                                 paths |-> [j \in DOMAIN sorted_paths |->
                                               Slashed(sorted_paths[j])],
                                 explanation |-> deprecated_fields[k].value.explanation]]]

InitDeprecated ==
    /\ pc = "new"
    /\ select_version = None
    /\ release_data = [empty |-> TRUE, version |-> None, extensions |-> << >>, fields |-> {}]
    /\ self = NoObject
    /\ SchemaIdle
    /\ CodelistIdle
    /\ ValidationIdle
    /\ UniqueIdle
    /\ FieldsIdle
    /\ ResolverIdle
    /\ ValuesIdle
    /\ dep_json_data \in DepDocuments
    /\ dep_schema \in DeprecationSchemas
    /\ deprecated_fields_output = NotCalled

GetJsonDataDeprecatedFields ==
    /\ ~deprecated_fields_output.called
    /\ deprecated_fields_output' = get_deprecated_fields(dep_json_data, dep_schema)
    /\ UNCHANGED <<dep_json_data, dep_schema>>

NextDeprecated ==
    GetJsonDataDeprecatedFields
    /\ UNCHANGED <<schemaVars, codelistVars, validationVars, uniqueVars, fieldVars, valuesVars, resolverVars>>

SpecDeprecated == InitDeprecated /\ [][NextDeprecated]_vars

(***************************************************************************)
(* Claims about the deprecated fields (SpecDeprecated).                    *)
(***************************************************************************)
\* Every node of the data: its concrete path, containers included.
RECURSIVE NodePaths(_, _)
NodePaths(value, path) ==
    (IF path = << >> THEN {} ELSE {path})
    \cup CASE value.t = "o" ->
                UNION {NodePaths(value.m[k], Append(path, Name(k))) : k \in DOMAIN value.m}
           [] value.t = "l" ->
                UNION {NodePaths(value.e[k], Append(path, IndexOf(k - 1))) : k \in DOMAIN value.e}
           [] OTHER -> {}

DeprecatedInSchema ==
    LET list == schema_deprecated_paths(dep_schema.properties, << >>)
    IN  {list[k][1] : k \in DOMAIN list}

\* The concrete occurrences of the deprecated fields named name.  An index
\* that ends a path is an element of the field's array, not the field.
OccurrencesOf(name) ==
    {p \in NodePaths(dep_json_data, << >>) :
        /\ ~p[Len(p)].int
        /\ p[Len(p)].s = name
        /\ GenericKey(p) \in DeprecatedInSchema}

PopulatedDeprecated ==
    {name \in {NameOrder[k] : k \in DOMAIN NameOrder} : OccurrencesOf(name) # {}}

ParentPaths(name) == {SubSeq(p, 1, Len(p) - 1) : p \in OccurrencesOf(name)}

\* C11 as stated: one entry for every populated deprecated field, whatever
\* its value, the entries ordered by field name, each with the sorted,
\* duplicate-free parent paths of all occurrences of the field in the data.
C11_AsStated ==
    deprecated_fields_output.called =>
        LET out == deprecated_fields_output.value
        IN  /\ deprecated_fields_output.raised = None
            /\ {out[k].field : k \in DOMAIN out} = PopulatedDeprecated
            /\ \A j, k \in DOMAIN out : j < k => Rank(out[j].field) < Rank(out[k].field)
            /\ \A k \in DOMAIN out :
                  out[k].paths =
                     LET sorted == SortedPaths(ParentPaths(out[k].field))
                     IN  [j \in DOMAIN sorted |-> [i \in DOMAIN sorted[j] |-> sorted[j][i].s]]


(***************************************************************************)
(* get_additional_codelist_values (lines 643-683) with                     *)
(* _get_schema_codelist_paths (577-603) and _generate_data_path (627-640). *)
(* Here a dict is the list of its (key, value) pairs in the dict's order   *)
(* and a scalar carries its string; "" is the empty string.                *)
(***************************************************************************)
MaxValueItems == 2

Str(v) == [t |-> "s", v |-> v]

Obj(pairs) == [t |-> "o", p |-> pairs]

\* `not value` of line 629
Empty(value) ==
    CASE value.t = "s" -> value.v = ""
      [] value.t = "l" -> value.e = << >>
      [] OTHER -> value.p = << >>

\* A property with a codelist: its file ("" for none) and its openCodelist
\* ("absent", TRUE or FALSE).
CodelistProperty(name, type, codelist, openCodelist, properties) ==
    [name |-> name, type |-> type, codelist |-> codelist,
     openCodelist |-> [given |-> openCodelist # "absent", v |-> openCodelist = "true"],
     properties |-> properties]

CodelistSchemas ==
    {[properties |->
        <<CodelistProperty("status", "string", "status.csv", o1, << >>),
          CodelistProperty("tag", "array", "tag.csv", "absent", << >>),
          CodelistProperty("items", "array", "", "absent",
              <<CodelistProperty("status", "string", "status.csv", o2, << >>)>>)>>]
     : o1 \in {"absent", "false", "true"}, o2 \in {"absent", "true"}}

\* What _load_codelists returned: nothing after a failed fetch, or every
\* file; status.csv may hold no record.
LoadedCodelists ==
    {<< >>}
    \cup {("status.csv" :> codes) @@ ("tag.csv" :> ("planning" :> "Planning"))
            : codes \in {<< >>, ("open" :> "Open")}}

StatusValues == {Absent, Str("open"), Str("closed"), Str("")}

TagValues ==
    {Absent, Lst(<< >>), Lst(<<Str("planning")>>), Lst(<<Str("planning"), Str("x")>>),
     Lst(<<Str("x"), Str("y")>>), Lst(<<Str("x"), Obj(<< >>)>>)}

ValueItems ==
    {Obj(<<<<"status", Str(v)>>>>) : v \in {"open", "closed", "bad"}} \cup {Obj(<< >>), Str("x")}

ItemsValues ==
    {Absent} \cup {Lst(e) : e \in UNION {[1..k -> ValueItems] : k \in 0..MaxValueItems}}

ValuesDocument(status, tag, items) ==
    Obj(SelectSeq(<<<<"status", status>>, <<"items", items>>, <<"tag", tag>>>>,
                  LAMBDA pair : pair[2] # Absent))

ValuesDocuments ==
    {ValuesDocument(status, tag, items) :
        status \in StatusValues, tag \in TagValues, items \in ItemsValues}

\* lines 589-601: {path: (filename, open?)}
RECURSIVE schema_codelist_paths(_, _, _)
schema_codelist_paths(properties, current_path, codelist_paths) ==
    IF properties = << >> THEN codelist_paths
    ELSE LET value == properties[1]
             path == Append(current_path, value.name)
             own == IF value.codelist # "" /\ path \notin DOMAIN codelist_paths
                    THEN (path :> <<value.codelist,
                                    IF value.openCodelist.given THEN value.openCodelist.v
                                    ELSE FALSE>>) @@ codelist_paths
                    ELSE codelist_paths
             below == IF value.type = "object"
                         \/ (value.type = "array" /\ value.properties # << >>)
                      THEN schema_codelist_paths(value.properties, path, own)
                      ELSE own
         IN  schema_codelist_paths(Tail(properties), current_path, below)

\* What the generator does, in order: the (path, value) pairs it yields,
\* ended by the AttributeError of json_data.items() on an item that is no
\* dict.
Yield(path, value) == [raise |-> FALSE, path |-> path, value |-> value]

Raise == [raise |-> TRUE, path |-> << >>, value |-> Str("")]

Ended(events) == events # << >> /\ events[Len(events)].raise

RECURSIVE generate_data_path(_, _), data_path_of_pairs(_, _), data_path_of_items(_, _, _)

\* lines 632-634: the items of a list whose first item is a dict
data_path_of_items(e, num, path) ==
    IF num > Len(e) THEN << >>
    ELSE LET first == generate_data_path(e[num], Append(path, IndexOf(num - 1)))
         IN  IF Ended(first) THEN first
             ELSE first \o data_path_of_items(e, num + 1, path)

\* lines 628-640, pair by pair
data_path_of_pairs(pairs, path) ==
    IF pairs = << >> THEN << >>
    ELSE LET key == pairs[1][1]
             value == pairs[1][2]
             here == Append(path, Name(key))
             first == IF Empty(value) THEN << >>
                      ELSE CASE value.t = "l" ->
                                   IF value.e[1].t = "o"
                                   THEN data_path_of_items(value.e, 1, here)
                                   ELSE <<Yield(here, value)>>
                             [] value.t = "o" -> generate_data_path(value, here)
                             [] OTHER -> <<Yield(here, value)>>
         IN  IF Ended(first) THEN first
             ELSE first \o data_path_of_pairs(Tail(pairs), path)

\* lines 627-640
generate_data_path(json_data, path) ==
    IF json_data.t # "o" THEN <<Raise>> ELSE data_path_of_pairs(json_data.p, path)

\* lines 669-680: the values of one pair.  `value in codelist_values`
\* raises TypeError for a value that is a dict or a list.
RECURSIVE check_values(_, _, _, _, _)
check_values(values, path_no_num, entry, codelist_values, out) ==
    IF values = << >> THEN out
    ELSE IF values[1].t # "s" THEN [out EXCEPT !.raised = "TypeError"]
    ELSE IF values[1].v \in DOMAIN codelist_values
    THEN check_values(Tail(values), path_no_num, entry, codelist_values, out)
    ELSE LET d == out.value
             with == IF path_no_num \in DOMAIN d THEN d
                     ELSE (path_no_num :> entry) @@ d
         IN  check_values(Tail(values), path_no_num, entry, codelist_values,
                 [out EXCEPT !.value =
                     [with EXCEPT ![path_no_num].values = @ \cup {values[1].v}]])

\* lines 652-681: the loop over what the generator yields
RECURSIVE check_events(_, _, _, _)
check_events(events, codelist_schema_paths, loaded, out) ==
    IF events = << >> \/ out.raised # None THEN out
    ELSE IF events[1].raise THEN [out EXCEPT !.raised = "AttributeError"]
    ELSE LET values == IF events[1].value.t = "l" THEN events[1].value.e
                       ELSE <<events[1].value>>
             path_no_num == JoinNoNumber(events[1].path)
             known == path_no_num \in DOMAIN codelist_schema_paths
             codelist == codelist_schema_paths[path_no_num][1]
             isopen == codelist_schema_paths[path_no_num][2]
             entry == [path |-> SubSeq(path_no_num, 1, Len(path_no_num) - 1),
                       field |-> path_no_num[Len(path_no_num)],
                       codelist |-> codelist,
                       codelist_url |-> <<codelist_url[1], codelist>>,
                       isopen |-> isopen,
                       values |-> {}]
         IN  IF ~known THEN check_events(Tail(events), codelist_schema_paths, loaded, out)
             ELSE IF codelist \notin DOMAIN loaded \/ loaded[codelist] = << >>
             THEN check_events(Tail(events), codelist_schema_paths, loaded, out)
             ELSE check_events(Tail(events), codelist_schema_paths, loaded,
                               check_values(values, path_no_num, entry, loaded[codelist], out))

\* lines 643-683, _load_codelists having returned loaded
additional_codelist_values_of(schema, loaded, json_data) ==
    LET out == check_events(generate_data_path(json_data, << >>),
                            schema_codelist_paths(schema.properties, << >>, << >>),
                            loaded,
                            [called |-> TRUE, raised |-> None, value |-> << >>])
    IN  IF out.raised # None THEN [out EXCEPT !.value = << >>] ELSE out

InitValues ==
    /\ pc = "new"
    /\ select_version = None
    /\ release_data = [empty |-> TRUE, version |-> None, extensions |-> << >>, fields |-> {}]
    /\ self = NoObject
    /\ SchemaIdle
    /\ CodelistIdle
    /\ ValidationIdle
    /\ UniqueIdle
    /\ FieldsIdle
    /\ ResolverIdle
    /\ DeprecatedIdle
    /\ cl_json_data \in ValuesDocuments
    /\ codelist_schema \in CodelistSchemas
    /\ loaded_codelists \in LoadedCodelists
    /\ additional_codelist_values = NotCalled

GetAdditionalCodelistValues ==
    /\ ~additional_codelist_values.called
    /\ additional_codelist_values' =
          additional_codelist_values_of(codelist_schema, loaded_codelists, cl_json_data)
    /\ UNCHANGED <<cl_json_data, codelist_schema, loaded_codelists>>

NextValues ==
    GetAdditionalCodelistValues
    /\ UNCHANGED <<schemaVars, codelistVars, validationVars, uniqueVars, fieldVars,
                   deprecatedVars,
                   resolverVars>>

SpecValues == InitValues /\ [][NextValues]_vars

(***************************************************************************)
(* Claims about the additional codelist values (SpecValues).               *)
(***************************************************************************)
\* Every scalar of the data with the index-free path it is located at.
RECURSIVE Leaves(_, _)
Leaves(value, path) ==
    CASE value.t = "s" -> {<<path, value.v>>}
      [] value.t = "l" -> UNION {Leaves(value.e[k], path) : k \in DOMAIN value.e}
      [] OTHER -> UNION {Leaves(value.p[k][2], Append(path, value.p[k][1]))
                            : k \in DOMAIN value.p}

CodelistPaths == schema_codelist_paths(codelist_schema.properties, << >>, << >>)

UnknownAt(path) ==
    {leaf[2] : leaf \in {l \in Leaves(cl_json_data, << >>) :
                            /\ l[1] = path
                            /\ l[2] \notin DOMAIN loaded_codelists[CodelistPaths[path][1]]}}

\* C12 as stated: for every path of the schema's codelists whose file was
\* loaded, the values of the data at that path that are no codes are the
\* `values` of the one record of that path, and there is no record when
\* there are none; isopen is the openCodelist of the path's property.
C12_AsStated ==
    additional_codelist_values.called =>
        LET out == additional_codelist_values.value
        IN  /\ additional_codelist_values.raised = None
            /\ DOMAIN out \subseteq DOMAIN CodelistPaths
            /\ \A path \in DOMAIN CodelistPaths :
                  CodelistPaths[path][1] \in DOMAIN loaded_codelists =>
                     IF UnknownAt(path) = {} THEN path \notin DOMAIN out
                     ELSE /\ path \in DOMAIN out
                          /\ out[path].values = UnknownAt(path)
                          /\ out[path].isopen = CodelistPaths[path][2]


(***************************************************************************)
(* The object in use while the hosts of the extensions change their        *)
(* answers between two calls: every call of apply_extensions fetches the   *)
(* patches and the descriptors anew (lines 194, 210).                      *)
(***************************************************************************)
\* A host is unreachable, serves the patch but no descriptor, or serves
\* both; the codelist host answers.
HostAnswers(data) ==
    {n \in Networks(data) :
        /\ n.codelists_ok
        /\ \A d \in DOMAIN n.ext : n.ext[d] \in {"patch fetch raises", "descriptor fails", "ok"}}

InitHosts ==
    /\ pc = "built"
    /\ select_version = None
    /\ release_data \in ReleaseData({None}, ExtensionLists, {{}})
    /\ self = SchemaOCDS(select_version, release_data)
    /\ net \in HostAnswers(release_data)
    /\ fs = NoFile
    /\ frag = [a \in Analyzers |-> NotRun]
    /\ raised = None
    /\ ncalls = 0
    /\ others = FALSE
    /\ seen = NothingSeen
    /\ CodelistIdle
    /\ ValidationIdle
    /\ UniqueIdle
    /\ FieldsIdle
    /\ ResolverIdle
    /\ DeprecatedIdle
    /\ ValuesIdle

\* Between two calls a host starts or stops to answer, or answers otherwise.
HostsChange ==
    /\ pc = "built"
    /\ 0 < ncalls /\ ncalls < MaxCalls
    /\ net' \in HostAnswers(release_data) \ {net}
    /\ UNCHANGED <<pc, select_version, release_data, self, fs, frag, raised, ncalls,
                   others, seen>>
    /\ UNCHANGED <<codelistVars, validationVars, uniqueVars, fieldVars, deprecatedVars,
                   valuesVars,
                   resolverVars>>

NextHosts ==
    \/ Next
    \/ HostsChange

SpecHosts == InitHosts /\ [][NextHosts]_vars

(***************************************************************************)
(* Claims about repeated calls (SpecHosts).                                *)
(***************************************************************************)
\* C13 as stated: all the calls of get_release_schema_obj(deref=True) on
\* one object return equal trees, and so do all the calls of
\* get_release_pkg_schema_obj(deref=True), whatever was called in between.
C13_AsStated ==
    /\ Cardinality(seen.schema) <= 1
    /\ Cardinality(seen.pkg) <= 1

HasTriple(d) == self.extensions[d] # << >>

\* C16 as stated: once apply_extensions has been called, each declared
\* descriptor URL is in invalid_extension or has its triple in extensions,
\* never both, and extended holds exactly when some URL has its triple.
C16_AsStated ==
    /\ \A d \in DOMAIN self.extensions :
          /\ ~(d \in DOMAIN self.invalid_extension /\ HasTriple(d))
          /\ seen.applied => (d \in DOMAIN self.invalid_extension \/ HasTriple(d))
    /\ self.extended <=> \E d \in DOMAIN self.extensions : HasTriple(d)


(***************************************************************************)
(* CustomRefResolver (lines 55-76) and add_is_codelist (555-574).  A uri   *)
(* is the base it was joined onto and a name; a ref is the list of the     *)
(* segments of its URI; a type is the string or the list the schema gives. *)
(***************************************************************************)
MaxResolves == 3

TypeString(name) == [list |-> FALSE, names |-> {name}]

TypeList(names) == [list |-> TRUE, names |-> names]

NoItems == [isCodelist |-> FALSE, properties |-> << >>]

SchemaProperty(name, type, codelist, items, properties) ==
    [name |-> name, type |-> type, codelist |-> codelist, isCodelist |-> FALSE,
     items |-> items, properties |-> properties]

EmptyDocument == [properties |-> << >>, definitions |-> << >>]

\* A release schema: tag is an array of codes, status a code, tender an
\* object (its type given as a string or as a list) with a code, Award a
\* definition with a code.
SchemaDocuments ==
    {EmptyDocument}
    \cup {[properties |->
              <<SchemaProperty("tag", TypeList({"array", "null"}), tag, NoItems, << >>),
                SchemaProperty("status", TypeList({"string", "null"}), TRUE, NoItems, << >>),
                SchemaProperty("tender", type, FALSE, NoItems,
                    <<SchemaProperty("method", TypeString("string"), TRUE, NoItems, << >>)>>),
                SchemaProperty("awards", TypeString("array"), FALSE,
                    [isCodelist |-> FALSE,
                     properties |-> <<SchemaProperty("status", TypeString("string"), TRUE,
                                                     NoItems, << >>)>>],
                    << >>)>>,
           definitions |->
              <<[properties |-> <<SchemaProperty("scheme", TypeString("string"), TRUE,
                                                 NoItems, << >>)>>]>>]
          : tag \in BOOLEAN, type \in {TypeString("object"), TypeList({"object", "null"})}}

\* lines 560-569
RECURSIVE add_is_codelist_properties(_)
add_is_codelist_properties(properties) ==
    [k \in DOMAIN properties |->
        LET value == properties[k]
            flagged == IF value.codelist
                       THEN IF "array" \in value.type.names
                            THEN [value EXCEPT !.items.isCodelist = TRUE]
                            ELSE [value EXCEPT !.isCodelist = TRUE]
                       ELSE value
        IN  IF value.type = TypeString("object")
            THEN [flagged EXCEPT !.properties = add_is_codelist_properties(@)]
            ELSE IF value.type = TypeString("array") /\ value.items.properties # << >>
                 THEN [flagged EXCEPT !.items.properties = add_is_codelist_properties(@)]
                 ELSE flagged]

\* lines 555-574
add_is_codelist(obj) ==
    [properties |-> add_is_codelist_properties(obj.properties),
     definitions |-> [k \in DOMAIN obj.definitions |->
                         [properties |->
                             add_is_codelist_properties(obj.definitions[k].properties)]]]

Uri(base, name) == [base |-> base, name |-> name]

SchemaUrl(scheme, base) == [scheme |-> scheme, base |-> base]

\* The resolvers get_schema_validation_errors builds (lines 390-393): with
\* the extended file, with an http host, with a host that is a directory.
Resolvers ==
    {[built |-> TRUE, schema_file |-> ExtendedPath, schema_url |-> SchemaUrl("", "")],
     [built |-> TRUE, schema_file |-> None, schema_url |-> SchemaUrl("http", "http://host/")],
     [built |-> TRUE, schema_file |-> None, schema_url |-> SchemaUrl("", "/schemas/")]}

Refs == {<<"release-schema.json">>, <<"a", "b", "release-schema.json">>,
         <<"a", "versioned-release-validation-schema.json">>}

NotServed == [served |-> FALSE]

Served(document) == [served |-> TRUE, document |-> document]

ServedNames(r) ==
    IF r.schema_file # None THEN {r.schema_file}
    ELSE {ref[Len(ref)] : ref \in Refs}

\* lines 62-63: schema_name and the uri joined onto schema_url
ResolvedUri(r, ref) ==
    LET schema_name == IF r.schema_file # None THEN r.schema_file ELSE ref[Len(ref)]
    IN  Uri(r.schema_url.base, schema_name)

CacheHit_never(s, uri) == FALSE

\* lines 64-67: document = self.store.get(uri); if document: ...
CacheHit(s, uri) == uri \in DOMAIN s /\ s[uri] # EmptyDocument

\* lines 61-76.  With an http schema_url the library's resolve_remote
\* fetches the document and stores it (cache_remote) as it came.
resolve_remote_uri(r, s, ref, files) ==
    LET uri == ResolvedUri(r, ref)
    IN  IF CacheHit(s, uri)
        THEN [uri |-> uri, io |-> FALSE, raised |-> None, value |-> s[uri], store |-> s]
        ELSE IF ~files[uri.name].served
        THEN [uri |-> uri, io |-> TRUE,
              raised |-> IF r.schema_url.scheme = "http" THEN "RequestException"
                         ELSE "FileNotFoundError",
              value |-> EmptyDocument, store |-> s]
        ELSE IF r.schema_url.scheme = "http"
        THEN [uri |-> uri, io |-> TRUE, raised |-> None,
              value |-> files[uri.name].document,
              store |-> (uri :> files[uri.name].document) @@ s]
        ELSE LET result == add_is_codelist(files[uri.name].document)
             IN  [uri |-> uri, io |-> TRUE, raised |-> None, value |-> result,
                  store |-> (uri :> result) @@ s]

InitResolver ==
    /\ pc = "new"
    /\ select_version = None
    /\ release_data = [empty |-> TRUE, version |-> None, extensions |-> << >>, fields |-> {}]
    /\ self = NoObject
    /\ SchemaIdle
    /\ CodelistIdle
    /\ ValidationIdle
    /\ UniqueIdle
    /\ FieldsIdle
    /\ DeprecatedIdle
    /\ ValuesIdle
    /\ resolver \in Resolvers
    /\ served \in [ServedNames(resolver) -> {NotServed} \cup {Served(d) : d \in SchemaDocuments}]
    /\ store = << >>
    /\ io_log = << >>
    /\ resolved = NoResolved

ResolveRemote(ref) ==
    /\ Len(resolved.refs) < MaxResolves
    /\ LET r == resolve_remote_uri(resolver, store, ref, served)
       IN  /\ store' = r.store
           /\ io_log' = IF r.io /\ r.raised = None
                        THEN Append(io_log, [ref |-> ref, uri |-> r.uri])
                        ELSE io_log
           /\ resolved' = [called |-> TRUE, ref |-> ref, uri |-> r.uri, io |-> r.io,
                           raised |-> r.raised, value |-> r.value,
                           refs |-> Append(resolved.refs, ref)]
    /\ UNCHANGED <<resolver, served>>

NextResolver ==
    \E ref \in Refs :
        ResolveRemote(ref)
        /\ UNCHANGED <<schemaVars, codelistVars, validationVars, uniqueVars, fieldVars,
                       deprecatedVars, valuesVars>>

SpecResolver == InitResolver /\ [][NextResolver]_vars

(***************************************************************************)
(* Claims about the resolver (SpecResolver).                               *)
(***************************************************************************)
\* Every property with a codelist, wherever it stands, has the flag: on its
\* items when its type holds 'array', on itself otherwise.
RECURSIVE AnnotatedProperties(_)
AnnotatedProperties(properties) ==
    \A k \in DOMAIN properties :
        LET value == properties[k]
        IN  /\ value.codelist =>
                 IF "array" \in value.type.names THEN value.items.isCodelist
                 ELSE value.isCodelist
            /\ AnnotatedProperties(value.properties)
            /\ AnnotatedProperties(value.items.properties)

Annotated(document) ==
    /\ AnnotatedProperties(document.properties)
    /\ \A k \in DOMAIN document.definitions :
          AnnotatedProperties(document.definitions[k].properties)

\* C14 as stated: every document resolve_remote returns or stores, read
\* from a file or fetched from an http host, is annotated by add_is_codelist.
C14_AsStated ==
    /\ \A uri \in DOMAIN store : Annotated(store[uri])
    /\ (resolved.called /\ resolved.raised = None) => Annotated(resolved.value)

LoadsOf(uri) == {k \in DOMAIN io_log : io_log[k].uri = uri}

\* C15 as stated: the uri resolved is the last segment of the ref joined
\* onto the host, a document is loaded at most once for a uri, and a call
\* returns the document of the store.
C15_AsStated ==
    /\ \A k \in DOMAIN io_log :
          io_log[k].uri = Uri(resolver.schema_url.base, io_log[k].ref[Len(io_log[k].ref)])
    /\ \A k \in DOMAIN io_log : Cardinality(LoadsOf(io_log[k].uri)) <= 1
    /\ (resolved.called /\ resolved.raised = None) => resolved.value = store[resolved.uri]

\* C15 amended: with a schema_file every ref resolves to that file,
\* otherwise to the last segment of the ref joined onto schema_url; a
\* document that is not empty is loaded at most once for a uri, and a call
\* returns the document of the store.
C15_CachedPerUri ==
    /\ \A k \in DOMAIN io_log :
          io_log[k].uri =
             IF resolver.schema_file # None
             THEN Uri(resolver.schema_url.base, resolver.schema_file)
             ELSE Uri(resolver.schema_url.base, io_log[k].ref[Len(io_log[k].ref)])
    /\ \A k \in DOMAIN io_log :
          store[io_log[k].uri] # EmptyDocument => Cardinality(LoadsOf(io_log[k].uri)) <= 1
    /\ (resolved.called /\ resolved.raised = None) => resolved.value = store[resolved.uri]

\* A second ref with another directory and the same last segment is
\* answered from the store.
C15_Witness ==
    /\ resolved.called
    /\ resolver.schema_file = None
    /\ resolved.ref = <<"a", "b", "release-schema.json">>
    /\ ~resolved.io
    /\ resolved.value = store[resolved.uri]
    /\ \E k \in DOMAIN io_log :
          io_log[k].uri = resolved.uri /\ io_log[k].ref = <<"release-schema.json">>


(***************************************************************************)
(* One caller, many keys: the store of the lru_cache wrapper fills up.     *)
(* The watched key is the one a release's codelists are loaded under; the  *)
(* other keys are the codelist hosts of schemas that name no codelist      *)
(* file, asked for one after the other.                                    *)
(***************************************************************************)
MaxWatched == 3

WatchedKey == <<codelist_url, {"base.csv"}>>

OtherKey(n) == <<<<"codelists", ToString(n)>>, {}>>

OtherKeys == {OtherKey(n) : n \in 1..maxsize}

\* The other key asked for next: the one after the last that was stored.
NextOther(c) ==
    LET stored == {n \in 1..maxsize : Cached(c, OtherKey(n))}
    IN  IF stored = {} THEN 1
        ELSE 1 + (CHOOSE n \in stored : \A m \in stored : m <= n)

\* The calls made under the watched key so far.
WatchedCalls == call["t1"].loads - (NextOther(cache) - 1)

\* The watched key is asked for before the other hosts, or after all of them.
AsksWatched == NextOther(cache) <= 2 \/ NextOther(cache) > maxsize

InitEviction == InitCodelist

NextEviction ==
    \/ /\ AsksWatched
       /\ WatchedCalls < MaxWatched
       /\ Lookup("t1", WatchedKey)
       /\ UNCHANGED <<schemaVars, validationVars, uniqueVars, fieldVars, deprecatedVars, valuesVars, resolverVars>>
    \/ /\ NextOther(cache) <= maxsize
       /\ Lookup("t1", OtherKey(NextOther(cache)))
       /\ UNCHANGED <<schemaVars, validationVars, uniqueVars, fieldVars, deprecatedVars, valuesVars, resolverVars>>
    \/ \E file \in CodelistFiles, ok \in BOOLEAN :
            Fetch("t1", file, ok) /\ UNCHANGED <<schemaVars, validationVars, uniqueVars, fieldVars, deprecatedVars, valuesVars, resolverVars>>
    \/ Return("t1") /\ UNCHANGED <<schemaVars, validationVars, uniqueVars, fieldVars, deprecatedVars, valuesVars, resolverVars>>

SpecEviction == InitEviction /\ [][NextEviction]_vars

\* The step in which caller t returns from _load_codelists.
Returns(t) == call[t].pc = "fetch" /\ call'[t].pc = "idle"

\* The step in which caller t enters the wrapper.
Calls(t) == call[t].pc = "idle" /\ call'[t] # call[t]

\* A load that completes is memoized, whatever its result.
MemoizedOnReturn ==
    \A t \in Callers :
        Returns(t) =>
            /\ Cached(cache', call[t].key)
            /\ ~Cached(cache, call[t].key) =>
                    ResultOf(cache', call[t].key) = call'[t].result

\* A call under a stored key returns the stored mapping and issues no GET.
HitReturnsStored ==
    \A t \in Callers :
        (Calls(t) /\ Cached(cache, call'[t].key)) =>
            /\ call'[t].pc = "idle"
            /\ call'[t].result = ResultOf(cache, call'[t].key)
            /\ http_log' = http_log

\* Entry i of the store is still there, with its mapping, after the step.
Kept(i) ==
    /\ Cached(cache', cache[i].key)
    /\ ResultOf(cache', cache[i].key) = cache[i].result

\* The step stores a new key in a full store.
Evicts ==
    /\ Len(cache) = maxsize
    /\ \E t \in Callers : Returns(t) /\ ~Cached(cache, call[t].key)

\* C17 as stated: every completed load is memoized, a stored key keeps its
\* mapping for good, and every later call under it returns that mapping
\* without a GET.
C17_AsStated ==
    [][/\ MemoizedOnReturn
       /\ HitReturnsStored
       /\ \A i \in DOMAIN cache : Kept(i)]_vars

\* C17 amended: every completed load is memoized, failed ones included, and
\* a call under a stored key returns the stored mapping without a GET; a
\* stored key keeps its mapping until it is the least recently used one
\* when a new key is stored in a full store of maxsize keys.
C17_MemoizedUntilEvicted ==
    [][/\ MemoizedOnReturn
       /\ HitReturnsStored
       /\ \A i \in DOMAIN cache : Kept(i) \/ (i = 1 /\ Evicts)]_vars

\* A failed load of the watched key is stored empty, and a later call has
\* returned the empty mapping from the store without a GET.
C17_Witness ==
    /\ Cached(cache, WatchedKey)
    /\ ResultOf(cache, WatchedKey) = << >>
    /\ call["t1"].pc = "idle"
    /\ call["t1"].key = WatchedKey
    /\ call["t1"].result = << >>
    /\ call["t1"].resp = << >>


====
